---- MODULE Spec2Model ----
(***************************************************************************)
(* A model of the trial-matching core of hackworld-poc:                    *)
(*   patient.py  convert_expressions, filter_trials_from_description,      *)
(*               find_conditions, get_mapping_with_aws_comprehend,         *)
(*               filter_by_inclusion_criteria                              *)
(*               get_lab_observations_by_patient                           *)
(*   apis.py     UmlsApi.get_crosswalk, UmlsApi.get_matches,               *)
(*               NciApi.get_trials                                         *)
(*                                                                         *)
(* Text is a sequence of one-character strings, so that the regular        *)
(* expressions and the eval() of the source are computed, not assumed.     *)
(* Python's None (and every other falsy value the code tests with `not`)   *)
(* is the empty tuple.                                                     *)
(***************************************************************************)
EXTENDS Integers, Sequences, FiniteSets, TLC

VARIABLES
    \* ---- the classification of one trial (patient.py 272-292)
    e_lab_results,      \* the lab map handed to the evaluation
    e_conditions,       \* the trial's conditions dict, as (cell type, text) items
    e_result,           \* empty before the classification, then its outcome
    \* ---- filter_by_inclusion_criteria (patient.py 187-258)
    trials_by_ncit,     \* the input: a list of {ncit, trials}
    lab_results,        \* the input: cell type -> (value, unit)
    pc,                 \* where the orchestrator is
    set_idx,            \* index of the trialset of the outer for loop
    tasks,              \* the tasks dict, in insertion order
    waited,             \* tasks the running iwait() has yielded so far
    filtered,           \* dict ncit code -> list of trials (insertion ordered)
    excluded,           \* dict ncit code -> list of trials (insertion ordered)
    ncit_codes,         \* dict ncit code -> the ncit dict first seen for it
    filtered_trials_by_ncit,
    excluded_trials_by_ncit,
    filter_condition,   \* trial -> trial.filter_condition
    \* ---- UmlsApi.get_matches (apis.py 49-62)
    conditions_by_code, \* the input: source codes, in dict order
    u_pc,               \* where the generator is
    matches,            \* the matches dict: one greenlet per source code
    u_waited,           \* greenlets iwait() has yielded so far
    yielded,            \* what the consumer has received, in order
    \* ---- NciApi.get_trials (apis.py 95-116)
    corpus_total,       \* the 'total' the trials service reports
    n_pc,               \* where the generator is
    pages,              \* the pages dict: one greenlet per start offset
    n_waited,           \* greenlets iwait() has yielded so far
    emitted,            \* the trials the consumer has received, in order
    \* ---- get_lab_observations_by_patient (patient.py 153-184)
    bundle,             \* the pages of the patient's observation bundle
    current_url,        \* index of the page to fetch next, 0 for None
    o_pc,               \* where the function is
    o_lab_results,      \* dict LOINC code -> {effectiveDateTime, value}
    values_by_cell_type, \* the dict returned
    \* ---- find_conditions (patient.py 296-313)
    f_trial_json,       \* the trial's $.eligibility.unstructured entries
    f_responses,        \* what the detection service did, call by call
    f_result            \* empty before the call, then <<result>>

evalVars == <<e_lab_results, e_conditions, e_result>>
filterVars == <<trials_by_ncit, lab_results, pc, set_idx, tasks, waited, filtered,
                excluded, ncit_codes, filtered_trials_by_ncit,
                excluded_trials_by_ncit, filter_condition>>
umlsVars == <<conditions_by_code, u_pc, matches, u_waited, yielded>>
nciVars == <<corpus_total, n_pc, pages, n_waited, emitted>>
obsVars == <<bundle, current_url, o_pc, o_lab_results, values_by_cell_type>>
findVars == <<f_trial_json, f_responses, f_result>>
vars == <<evalVars, filterVars, umlsVars, nciVars, obsVars, findVars>>

None == <<>>

----------------------------------------------------------------------------
(* Characters and numbers                                                  *)

DigitChars == {"0", "1", "2", "3", "4", "5", "6", "7", "8", "9"}
OpChars == {">", "=", "<"}
SepChars == {",", "."}

Letters == {"a", "b", "c", "d", "e", "f", "g", "h", "i", "j", "k", "l", "m",
            "n", "o", "p", "q", "r", "s", "t", "u", "v", "w", "x", "y", "z"}
UpperLetters == {"P"}
\* The class \w of the regular expressions.
WordChars == Letters \cup UpperLetters \cup DigitChars \cup {"_"}

\* str.lower()
LowerChar(c) == IF c = "P" THEN "p" ELSE c
Lower(s) == SubSeq([i \in 1..Len(s) |-> LowerChar(s[i])], 1, Len(s))

\* The tracked cell types (patient.py 298, 342).
Hemoglobin == <<"h", "e", "m", "o", "g", "l", "o", "b", "i", "n">>
Platelets == <<"p", "l", "a", "t", "e", "l", "e", "t", "s">>
Leukocytes == <<"l", "e", "u", "k", "o", "c", "y", "t", "e", "s">>
cell_types == <<Hemoglobin, Platelets, Leukocytes>>

\* Whether text s holds sub at index i; whether it holds it anywhere
\* (Python's  sub in s).
HasAt(s, i, sub) ==
    /\ i >= 1
    /\ i + Len(sub) - 1 <= Len(s)
    /\ \A k \in 1..Len(sub) : s[i + k - 1] = sub[k]
Contains(s, sub) == \E i \in 1..(Len(s) + 1) : HasAt(s, i, sub)

DigitVal(c) ==
    CASE c = "0" -> 0 [] c = "1" -> 1 [] c = "2" -> 2 [] c = "3" -> 3
      [] c = "4" -> 4 [] c = "5" -> 5 [] c = "6" -> 6 [] c = "7" -> 7
      [] c = "8" -> 8 [] c = "9" -> 9

RECURSIVE IntOf(_)
IntOf(s) ==
    IF s = <<>> THEN 0
    ELSE 10 * IntOf(SubSeq(s, 1, Len(s) - 1)) + DigitVal(s[Len(s)])

RECURSIVE Pow10(_)
Pow10(n) == IF n = 0 THEN 1 ELSE 10 * Pow10(n - 1)

RECURSIVE Pow2(_)
Pow2(n) == IF n = 0 THEN 1 ELSE 2 * Pow2(n - 1)

\* The index after the longest run of characters of class C that starts at i.
RECURSIVE RunEnd(_, _, _)
RunEnd(s, i, C) ==
    IF i <= Len(s) /\ s[i] \in C THEN RunEnd(s, i + 1, C) ELSE i

\* str.replace(c, '')
Remove(s, c) == SelectSeq(s, LAMBDA x : x # c)

Count(s, c) == Cardinality({i \in 1..Len(s) : s[i] = c})

----------------------------------------------------------------------------
(* Python's eval() on the text  lab_value + converted_condition            *)
(* (patient.py 281).  The text is a numeric literal, optionally followed   *)
(* by an operator and a second numeric literal.  The outcome is the truth  *)
(* value of the expression, or an exception (SyntaxError for text that is  *)
(* no expression, TypeError for a shift of a float).                       *)

LitChars == DigitChars \cup {"."}

\* A Python 3 numeric literal: digits with at most one point; an integer
\* literal has no leading zero unless it is all zeros.
ValidLit(t) ==
    /\ t # <<>>
    /\ \A i \in 1..Len(t) : t[i] \in LitChars
    /\ Count(t, ".") <= 1
    /\ \E i \in 1..Len(t) : t[i] \in DigitChars
    /\ Count(t, ".") = 0 =>
          \/ t[1] # "0"
          \/ \A i \in 1..Len(t) : t[i] = "0"

IsFloatLit(t) == Count(t, ".") = 1

\* The value of a literal as a fraction num/den.
LitValue(t) ==
    LET point == RunEnd(t, 1, DigitChars)
        fracLen == IF point > Len(t) THEN 0 ELSE Len(t) - point
    IN  [num |-> IntOf(Remove(t, ".")), den |-> Pow10(fracLen)]

Compare(op, l, r) ==
    LET a == l.num * r.den
        b == r.num * l.den
    IN  CASE op = <<">">> -> a > b
          [] op = <<">", "=">> -> a >= b
          [] op = <<"<">> -> a < b
          [] op = <<"<", "=">> -> a <= b
          [] op = <<"=", "=">> -> a = b

ComparisonOps == {<<">">>, <<">", "=">>, <<"<">>, <<"<", "=">>, <<"=", "=">>}
ShiftOps == {<<">", ">">>, <<"<", "<">>}

\* Truth of an integer shift: l >> r is non-zero iff l >= 2^r; l << r is
\* non-zero iff l is.
ShiftTruthy(op, l, r) ==
    IF op = <<"<", "<">> THEN l.num # 0
    ELSE r.num < 31 /\ l.num >= Pow2(r.num)

Raised == [raised |-> TRUE, truthy |-> FALSE]
Value(b) == [raised |-> FALSE, truthy |-> b]

PyEval(text) ==
    LET a == RunEnd(text, 1, LitChars)
        b == RunEnd(text, a, {" "})
        c == RunEnd(text, b, OpChars)
        d == RunEnd(text, c, {" "})
        left == SubSeq(text, 1, a - 1)
        op == SubSeq(text, b, c - 1)
        right == SubSeq(text, d, Len(text))
    IN  IF ~ValidLit(left) THEN Raised
        ELSE IF b > Len(text) THEN Value(LitValue(left).num # 0)
        ELSE IF ~ValidLit(right) THEN Raised
        ELSE IF op \in ComparisonOps
             THEN Value(Compare(op, LitValue(left), LitValue(right)))
        ELSE IF op \in ShiftOps
             THEN IF IsFloatLit(left) \/ IsFloatLit(right) THEN Raised
                  ELSE Value(ShiftTruthy(op, LitValue(left), LitValue(right)))
        ELSE Raised

----------------------------------------------------------------------------
(* convert_expressions (patient.py 356-374)                                *)

\* One attempt of the pattern  \s?[\>\=\<]+\s?\d+[\,\.]?\d*  at index i:
\* the index after the match, or 0.  The classes of adjacent pieces are
\* disjoint, so the greedy choice is the only one that can succeed.
MatchEnd(s, i) ==
    LET j1 == IF i <= Len(s) /\ s[i] = " " THEN i + 1 ELSE i
        j2 == RunEnd(s, j1, OpChars)
        j3 == IF j2 <= Len(s) /\ s[j2] = " " THEN j2 + 1 ELSE j2
        j4 == RunEnd(s, j3, DigitChars)
        j5 == IF j4 <= Len(s) /\ s[j4] \in SepChars THEN j4 + 1 ELSE j4
        j6 == RunEnd(s, j5, DigitChars)
    IN  IF j2 > j1 /\ j4 > j3 THEN j6 ELSE 0

\* pattern.findall(condition): the non-overlapping matches, left to right.
RECURSIVE findall_from(_, _)
findall_from(s, i) ==
    IF i > Len(s) THEN <<>>
    ELSE LET e == MatchEnd(s, i)
         IN  IF e = 0 THEN findall_from(s, i + 1)
             ELSE <<SubSeq(s, i, e - 1)>> \o findall_from(s, e)

findall(s) == findall_from(s, 1)

\* convert_expressions with the no-match return  lab_value[0], ""  in place
\* of the sentinel  "0", "".
convert_expressions_KeepsLabValue(lab_value, condition) ==
    LET found == findall(condition)
    IN  IF Len(found) = 0 THEN << lab_value[1], <<>> >>
        ELSE << lab_value[1], Remove(found[1], ",") >>

convert_expressions(lab_value, condition) ==
    LET found == findall(condition)
    IN  IF Len(found) = 0 THEN << <<"0">>, <<>> >>
        ELSE << lab_value[1], Remove(found[1], ",") >>

----------------------------------------------------------------------------
(* The body of the loop over a trial's conditions                          *)
(* (filter_trials_from_description, patient.py 276-285)                    *)

\* dict.get(key): the value, or None.
Get(map, key) == IF key \in DOMAIN map THEN map[key] ELSE None

\* The evaluation with a missing lab value recorded as a failure.
EvalCondition_MissingFails(labs, cell_type, condition) ==
    LET lab_value == Get(labs, cell_type)
    IN  IF lab_value = None
        THEN [raised |-> FALSE, passed |-> FALSE]
        ELSE LET conv == convert_expressions(lab_value, condition)
             IN  IF conv[1] # <<"0">>
                 THEN LET r == PyEval(conv[1] \o conv[2])
                      IN  [raised |-> r.raised, passed |-> r.truthy]
                 ELSE [raised |-> FALSE, passed |-> FALSE]

\* The evaluation without the  lab_value != "0"  test of line 281.
EvalCondition_NoZeroTest(labs, cell_type, condition) ==
    LET lab_value == Get(labs, cell_type)
    IN  IF lab_value = None
        THEN [raised |-> FALSE, passed |-> TRUE]
        ELSE LET conv == convert_expressions(lab_value, condition)
                 r == PyEval(conv[1] \o conv[2])
             IN  [raised |-> r.raised, passed |-> r.truthy]

\* The decision on one condition: the (condition, passed) entry appended to
\* trial.filter_condition, or the exception eval() raised.
EvalCondition(labs, cell_type, condition) ==
    LET lab_value == Get(labs, cell_type)
    IN  IF lab_value = None
        THEN [raised |-> FALSE, passed |-> TRUE]
        ELSE LET conv == convert_expressions(lab_value, condition)
             IN  IF conv[1] # <<"0">>
                 THEN LET r == PyEval(conv[1] \o conv[2])
                      IN  [raised |-> r.raised, passed |-> r.truthy]
                 ELSE [raised |-> FALSE, passed |-> FALSE]

\* The loop with include_trail set by every condition, a pass included, so
\* that the last condition alone decides.
RECURSIVE EvalItems_LastDecides(_, _, _)
EvalItems_LastDecides(labs, items, acc) ==
    IF items = <<>> THEN acc
    ELSE LET d == EvalCondition(labs, items[1][1], items[1][2])
         IN  IF d.raised
             THEN [acc EXCEPT !.raised = TRUE]
             ELSE EvalItems_LastDecides(labs, Tail(items),
                    [raised |-> FALSE,
                     filter_condition |->
                        Append(acc.filter_condition, <<items[1][2], d.passed>>),
                     include_trail |-> d.passed])

\* The loop over conditions.items() (patient.py 275-285): acc carries
\* trial.filter_condition and include_trail; an exception ends the loop.
RECURSIVE EvalItems(_, _, _)
EvalItems(labs, items, acc) ==
    IF items = <<>> THEN acc
    ELSE LET d == EvalCondition(labs, items[1][1], items[1][2])
         IN  IF d.raised
             THEN [acc EXCEPT !.raised = TRUE]
             ELSE EvalItems(labs, Tail(items),
                    [raised |-> FALSE,
                     filter_condition |->
                        Append(acc.filter_condition, <<items[1][2], d.passed>>),
                     include_trail |-> acc.include_trail /\ d.passed])

NoCriteria == <<"No Inclusion Criteria Found">>

\* The body of the loop over trials, after find_conditions returned
\* (patient.py 272-292): the new trial.filter_condition and the list the
\* trial is appended to ("none" when eval() raised).
InitialLoopState ==
    [raised |-> FALSE, filter_condition |-> <<>>, include_trail |-> TRUE]

\* Lines 286-289: the list the trial goes to once the loop is over.
PlaceTrial(r) ==
    [raised |-> r.raised,
     filter_condition |-> r.filter_condition,
     placed |-> IF r.raised THEN "none"
                ELSE IF r.include_trail THEN "filtered"
                ELSE "excluded"]

\* The loop body without the else branch of lines 290-292.
ClassifyTrial_NoDefaultPass(labs, conditions) ==
    PlaceTrial(EvalItems(labs, conditions, InitialLoopState))

ClassifyTrial(labs, conditions) ==
    IF conditions # <<>>
    THEN PlaceTrial(EvalItems(labs, conditions, InitialLoopState))
    ELSE [raised |-> FALSE,
          filter_condition |-> << <<NoCriteria, TRUE>> >>,
          placed |-> "filtered"]

----------------------------------------------------------------------------
(* Insertion-ordered dicts, as sequences of <<key, value>> items           *)

HasKey(d, k) == \E i \in 1..Len(d) : d[i][1] = k
ValueOf(d, k) == d[CHOOSE i \in 1..Len(d) : d[i][1] = k][2]
\* d[k] = v: a new key goes last, an old key keeps its place.
SetItem(d, k, v) ==
    IF HasKey(d, k)
    THEN [i \in 1..Len(d) |-> IF d[i][1] = k THEN <<k, v>> ELSE d[i]]
    ELSE Append(d, <<k, v>>)

----------------------------------------------------------------------------
(* find_conditions (patient.py 296-313)                                    *)

FirstNonZero(a, b) == IF a # 0 THEN a ELSE b

\* The pattern of line 304 after the operator,
\*     \d+[\.\,]?\d*\s?\w+\/?\s?\w+(\^\d*)?
\* with the backtracking of Python's re: every quantifier takes the most it
\* can and gives back one repetition at a time, the earlier quantifier
\* last.  Each operator is one quantifier; it returns the index after the
\* whole match, or 0.
RegexCaret(s, g) ==
    IF g <= Len(s) /\ s[g] = "^" THEN RunEnd(s, g + 1, DigitChars) ELSE g

RegexWord2(s, f) ==
    LET g == RunEnd(s, f, WordChars)
    IN  IF g > f THEN RegexCaret(s, g) ELSE 0

RegexSpace2(s, x) ==
    IF x <= Len(s) /\ s[x] = " "
    THEN FirstNonZero(RegexWord2(s, x + 1), RegexWord2(s, x))
    ELSE RegexWord2(s, x)

RegexSlash(s, e) ==
    IF e <= Len(s) /\ s[e] = "/"
    THEN FirstNonZero(RegexSpace2(s, e + 1), RegexSpace2(s, e))
    ELSE RegexSpace2(s, e)

RECURSIVE RegexWord1(_, _, _)
RegexWord1(s, d, e) ==
    IF e <= d THEN 0
    ELSE FirstNonZero(RegexSlash(s, e), RegexWord1(s, d, e - 1))

RegexSpace1(s, c) ==
    IF c <= Len(s) /\ s[c] = " "
    THEN FirstNonZero(RegexWord1(s, c + 1, RunEnd(s, c + 1, WordChars)),
                      RegexWord1(s, c, RunEnd(s, c, WordChars)))
    ELSE RegexWord1(s, c, RunEnd(s, c, WordChars))

RECURSIVE RegexDigits2(_, _, _)
RegexDigits2(s, b, c) ==
    IF c < b THEN 0
    ELSE FirstNonZero(RegexSpace1(s, c), RegexDigits2(s, b, c - 1))

RegexSep(s, a) ==
    IF a <= Len(s) /\ s[a] \in SepChars
    THEN FirstNonZero(RegexDigits2(s, a + 1, RunEnd(s, a + 1, DigitChars)),
                      RegexDigits2(s, a, RunEnd(s, a, DigitChars)))
    ELSE RegexDigits2(s, a, RunEnd(s, a, DigitChars))

RECURSIVE RegexDigits1(_, _, _)
RegexDigits1(s, k, a) ==
    IF a <= k THEN 0
    ELSE FirstNonZero(RegexSep(s, a), RegexDigits1(s, k, a - 1))

\* One attempt of the whole pattern of line 304 at index i,
\*     \[?(hemoglobin|platelets|leukocytes)\]?\s?[\>\=\<]+\s?  and the rest:
\* the index after the match and the cell type of group 2, or end = 0.
ConditionMatch(s, i) ==
    LET j0 == IF i <= Len(s) /\ s[i] = "[" THEN i + 1 ELSE i
        named == {k \in 1..Len(cell_types) : HasAt(s, j0, cell_types[k])}
    IN  IF named = {} THEN [end |-> 0, cell |-> <<>>]
        ELSE LET cell == cell_types[CHOOSE k \in named : TRUE]
                 j1 == j0 + Len(cell)
                 j2 == IF j1 <= Len(s) /\ s[j1] = "]" THEN j1 + 1 ELSE j1
                 j3 == IF j2 <= Len(s) /\ s[j2] = " " THEN j2 + 1 ELSE j2
                 j4 == RunEnd(s, j3, OpChars)
                 j5 == IF j4 <= Len(s) /\ s[j4] = " " THEN j4 + 1 ELSE j4
             IN  IF j4 > j3
                 THEN [end |-> RegexDigits1(s, j5, RunEnd(s, j5, DigitChars)),
                       cell |-> cell]
                 ELSE [end |-> 0, cell |-> <<>>]

\* pattern.findall(description): <<match[0], match[1]>> for every match.
RECURSIVE condition_findall(_, _)
condition_findall(s, i) ==
    IF i > Len(s) THEN <<>>
    ELSE LET m == ConditionMatch(s, i)
         IN  IF m.end = 0 THEN condition_findall(s, i + 1)
             ELSE << <<SubSeq(s, i, m.end - 1), m.cell>> >>
                    \o condition_findall(s, m.end)

\* The dict keyed by the whole match, match[0], not by its cell type.
RECURSIVE DictOfMatches_KeyedByText(_, _)
DictOfMatches_KeyedByText(found, d) ==
    IF found = <<>> THEN d
    ELSE DictOfMatches_KeyedByText(Tail(found), SetItem(d, found[1][1], found[1][1]))

\* {match[1]: str(match[0]) for match in matches}
RECURSIVE DictOfMatches(_, _)
DictOfMatches(found, d) ==
    IF found = <<>> THEN d
    ELSE DictOfMatches(Tail(found), SetItem(d, found[1][2], found[1][1]))

\* ' '.join(texts)
RECURSIVE Join(_)
Join(texts) ==
    IF texts = <<>> THEN <<>>
    ELSE IF Len(texts) = 1 THEN texts[1]
    ELSE texts[1] \o <<" ">> \o Join(Tail(texts))

MentionsCellType(text) ==
    \E k \in 1..Len(cell_types) : Contains(Lower(text), cell_types[k])

\* The joined text of line 301: the entries that mention a cell type.
Description(unstructured_descriptions) ==
    Join(SelectSeq([i \in 1..Len(unstructured_descriptions) |->
                        Lower(unstructured_descriptions[i])],
                   MentionsCellType))

----------------------------------------------------------------------------
(* get_mapping_with_aws_comprehend (patient.py 316-352)                    *)

limit == 19999

\* split_description cutting one character after the limit.
RECURSIVE split_description_CutsAfterLimit(_, _)
split_description_CutsAfterLimit(description, lim) ==
    IF Len(description) > lim + 1
    THEN <<SubSeq(description, 1, lim + 1)>>
            \o split_description_CutsAfterLimit(
                  SubSeq(description, lim + 2, Len(description)), lim)
    ELSE <<description>>

\* patient.py 316-322.
RECURSIVE split_description(_, _)
split_description(description, lim) ==
    IF Len(description) > lim
    THEN <<SubSeq(description, 1, lim)>>
            \o split_description(SubSeq(description, lim + 1, Len(description)), lim)
    ELSE <<description>>

\* Line 330: lower case, commas removed.
Normalise(text) == Remove(Lower(text), ",")

\* The generator get_description: the chunks it yields, in order.  data is
\* the text gathered and not yet yielded.
RECURSIVE get_description_from(_, _, _)
get_description_from(descriptions, data, lim) ==
    IF descriptions = <<>> THEN <<data>>
    ELSE LET description == Normalise(descriptions[1])
         IN  IF Len(description) > lim
             THEN split_description(description, lim)
                     \o get_description_from(Tail(descriptions), data, lim)
             ELSE IF Len(data) + Len(description) > lim
             THEN <<data>>
                     \o get_description_from(Tail(descriptions), description, lim)
             ELSE get_description_from(Tail(descriptions), data \o description, lim)

get_description(descriptions) == get_description_from(descriptions, <<>>, limit)

\* The loop over the entities of one response (patient.py 346-349).
RECURSIVE AddEntities(_, _)
AddEntities(entities, conditions) ==
    IF entities = <<>> THEN conditions
    ELSE LET entity_type == entities[1].Text
             tracked == \E k \in 1..Len(cell_types) :
                            cell_types[k] = Lower(entity_type)
         IN  AddEntities(Tail(entities),
                IF tracked /\ entities[1].Attributes # <<>>
                THEN SetItem(conditions, entity_type,
                             entity_type \o entities[1].Attributes[1])
                ELSE conditions)

\* The loop over the chunks with the try around the loop, not inside it: a
\* failure ends the loop.
RECURSIVE DetectChunks_AbortsOnFailure(_, _, _)
DetectChunks_AbortsOnFailure(chunks, responses, conditions) ==
    IF chunks = <<>> THEN conditions
    ELSE IF responses[1].raises THEN conditions
    ELSE DetectChunks_AbortsOnFailure(Tail(chunks), Tail(responses),
            AddEntities(responses[1].Entities, conditions))

\* The loop over the chunks (patient.py 343-351): responses[k] is what
\* client.detect_entities does on the k-th chunk, an exception or entities.
RECURSIVE DetectChunks(_, _, _)
DetectChunks(chunks, responses, conditions) ==
    IF chunks = <<>> THEN conditions
    ELSE DetectChunks(Tail(chunks), Tail(responses),
            IF responses[1].raises THEN conditions
            ELSE AddEntities(responses[1].Entities, conditions))

\* The conditions returned, and the texts handed to the detection service,
\* call by call.
get_mapping_with_aws_comprehend(descriptions, responses) ==
    [conditions |-> DetectChunks(get_description(descriptions), responses, <<>>),
     calls |-> get_description(descriptions)]

----------------------------------------------------------------------------
(* find_conditions, continued                                              *)

\* $.eligibility.unstructured[?inclusion_indicator=true].description
UnstructuredDescriptions(trial_json) ==
    LET kept == SelectSeq(trial_json, LAMBDA e : e.inclusion_indicator)
    IN  [i \in 1..Len(kept) |-> kept[i].description]

RegexConditions(trial_json) ==
    DictOfMatches(
        condition_findall(Description(UnstructuredDescriptions(trial_json)), 1),
        <<>>)

\* Whether find_conditions hands the trial to the detection service, and
\* the number of calls of the service it then makes.
CallsFallback(trial_json) ==
    /\ Description(UnstructuredDescriptions(trial_json)) # <<>>
    /\ Len(RegexConditions(trial_json)) # 3

ServiceCalls(trial_json) ==
    IF CallsFallback(trial_json)
    THEN Len(get_description(UnstructuredDescriptions(trial_json)))
    ELSE 0

\* Lines 306-311 with the matches of the pattern returned whenever there
\* are some, the detection service left for the text without match.
ConditionsOrFallback_KeepsMatches(unstructured_descriptions, found, conditions, responses) ==
    IF found # <<>>
    THEN [conditions |-> conditions, calls |-> <<>>]
    ELSE get_mapping_with_aws_comprehend(unstructured_descriptions, responses)

\* Lines 306-311 with the fallback given only the entries that mention a
\* cell type.
ConditionsOrFallback_MentioningOnly(unstructured_descriptions, found, conditions, responses) ==
    IF found # <<>> /\ Len(conditions) = 3
    THEN [conditions |-> conditions, calls |-> <<>>]
    ELSE get_mapping_with_aws_comprehend(
            SelectSeq(unstructured_descriptions, MentionsCellType), responses)

\* Lines 306-311, given the matches of the pattern and their dict.
ConditionsOrFallback(unstructured_descriptions, found, conditions, responses) ==
    IF found # <<>>
    THEN IF Len(conditions) = 3 THEN [conditions |-> conditions, calls |-> <<>>]
         ELSE get_mapping_with_aws_comprehend(unstructured_descriptions, responses)
    ELSE get_mapping_with_aws_comprehend(unstructured_descriptions, responses)

\* Lines 303-313, given the joined text.
ConditionsOfDescription(unstructured_descriptions, description, responses) ==
    IF description # <<>>
    THEN ConditionsOrFallback(unstructured_descriptions,
                              condition_findall(description, 1),
                              DictOfMatches(condition_findall(description, 1), <<>>),
                              responses)
    ELSE [conditions |-> <<>>, calls |-> <<>>]

ConditionsOfEntries(unstructured_descriptions, responses) ==
    ConditionsOfDescription(unstructured_descriptions,
                            Description(unstructured_descriptions), responses)

\* responses[k] is what the detection service does on the k-th call.  The
\* value is the dict returned, with the calls of the service made.
find_conditions(trial_json, responses) ==
    ConditionsOfEntries(UnstructuredDescriptions(trial_json), responses)

----------------------------------------------------------------------------
(* SpecEval: the classification of one trial with one condition, for every *)
(* condition text over a small alphabet and every lab value                *)

MaxFragLen == 4

EvalAlphabet == {">", "=", "<", " ", "0", "5", ",", ".", "u"}

SeqsUpTo(A, n) == UNION {[1..k -> A] : k \in 0..n}

\* str(value) of a FHIR valueQuantity (patient.py 169), with its unit.
LabValueTexts == {<<"0">>, <<"5">>, <<"5", "0">>, <<"0", ".", "5">>}

EvalLabMaps ==
    {<<>>} \cup {[c \in {Platelets} |-> <<v, "ul">>] : v \in LabValueTexts}

FilterIdle ==
    /\ trials_by_ncit = <<>>
    /\ lab_results = <<>>
    /\ pc = "idle"
    /\ set_idx = 0
    /\ tasks = <<>>
    /\ waited = {}
    /\ filtered = <<>>
    /\ excluded = <<>>
    /\ ncit_codes = <<>>
    /\ filtered_trials_by_ncit = <<>>
    /\ excluded_trials_by_ncit = <<>>
    /\ filter_condition = <<>>

UmlsIdle ==
    /\ conditions_by_code = <<>>
    /\ u_pc = "idle"
    /\ matches = <<>>
    /\ u_waited = {}
    /\ yielded = <<>>

EvalIdle ==
    /\ e_lab_results = <<>>
    /\ e_conditions = <<>>
    /\ e_result = <<>>

NciIdle ==
    /\ corpus_total = 0
    /\ n_pc = "idle"
    /\ pages = <<>>
    /\ n_waited = {}
    /\ emitted = <<>>

ObsIdle ==
    /\ bundle = <<>>
    /\ current_url = 0
    /\ o_pc = "idle"
    /\ o_lab_results = <<>>
    /\ values_by_cell_type = <<>>

FindIdle ==
    /\ f_trial_json = <<>>
    /\ f_responses = <<>>
    /\ f_result = <<>>

EvalConditionTexts == SeqsUpTo(EvalAlphabet, MaxFragLen)

ZeroLabMap == [c \in {Platelets} |-> << <<"0">>, "ul" >>]

\* Every lab map with every condition text, enumerated by case: the lab
\* values other than "0" first, then "0" against the texts that hold an
\* operator and a number, then "0" against the texts that hold none.
InitEval ==
    /\ \/ /\ e_lab_results \in EvalLabMaps \ {ZeroLabMap}
          /\ e_conditions \in {<< <<Platelets, c>> >> : c \in EvalConditionTexts}
       \/ /\ e_lab_results = ZeroLabMap
          /\ e_conditions \in {<< <<Platelets, c>> >> :
                                 c \in {t \in EvalConditionTexts : findall(t) # <<>>}}
       \/ /\ e_lab_results = ZeroLabMap
          /\ e_conditions \in {<< <<Platelets, c>> >> :
                                 c \in {t \in EvalConditionTexts : findall(t) = <<>>}}
    /\ e_result = <<>>
    /\ FilterIdle
    /\ UmlsIdle
    /\ NciIdle
    /\ ObsIdle
    /\ FindIdle

\* patient.py 272-292 for one trial.
EvaluateTrial ==
    /\ e_result = <<>>
    /\ e_result' = <<ClassifyTrial(e_lab_results, e_conditions)>>
    /\ UNCHANGED <<e_lab_results, e_conditions, filterVars, umlsVars, nciVars, obsVars, findVars>>

NextEval == EvaluateTrial

SpecEval == InitEval /\ [][NextEval]_vars

\* The one condition of the trial, its lab value and the outcome.
e_condition == e_conditions[1][2]
e_lab_value == Get(e_lab_results, e_conditions[1][1])
e_done == e_result # <<>>
e_first == findall(e_condition)[1]
e_op == LET a == RunEnd(e_first, 1, {" "})
        IN  SubSeq(e_first, a, RunEnd(e_first, a, OpChars) - 1)
e_threshold ==
    LET a == RunEnd(e_first, 1, {" "})
        b == RunEnd(e_first, a, OpChars)
        c == RunEnd(e_first, b, {" "})
    IN  LitValue(Remove(SubSeq(e_first, c, Len(e_first)), ","))

\* C5 as stated: a lab value "0" forces a pass, whatever the condition.
C5_ZeroForcesPass ==
    (e_done /\ e_lab_value # None /\ e_lab_value[1] = <<"0">>) =>
        /\ ~e_result[1].raised
        /\ e_result[1].filter_condition = << <<e_condition, TRUE>> >>
        /\ e_result[1].placed = "filtered"

\* C5 amended: a lab value "0" forces a fail, whatever the condition: the
\* decision recorded is passed=false and the trial is excluded.
C5_ZeroForcesFail ==
    (e_done /\ e_lab_value # None /\ e_lab_value[1] = <<"0">>) =>
        /\ ~e_result[1].raised
        /\ e_result[1].filter_condition = << <<e_condition, FALSE>> >>
        /\ e_result[1].placed = "excluded"

C5_Witness ==
    /\ e_done
    /\ e_lab_value # None /\ e_lab_value[1] = <<"0">>
    /\ e_condition = <<"<", "=", "5">>
    /\ e_result[1].placed = "excluded"

\* C6 as stated: a condition from which no operator and number can be
\* extracted passes for every present lab value.
C6_NoConstraintPasses ==
    (e_done /\ e_lab_value # None /\ findall(e_condition) = <<>>) =>
        /\ ~e_result[1].raised
        /\ e_result[1].filter_condition = << <<e_condition, TRUE>> >>
        /\ e_result[1].placed = "filtered"

\* C6 amended: a condition from which no operator and number can be
\* extracted fails for every present lab value, and the trial is excluded.
C6_NoConstraintFails ==
    (e_done /\ e_lab_value # None /\ findall(e_condition) = <<>>) =>
        /\ ~e_result[1].raised
        /\ e_result[1].filter_condition = << <<e_condition, FALSE>> >>
        /\ e_result[1].placed = "excluded"

C6_Witness ==
    /\ e_done
    /\ e_lab_value # None /\ e_lab_value[1] = <<"5", "0">>
    /\ e_condition = <<"u", " ", "5">>
    /\ e_result[1].placed = "excluded"

\* C7: for a present lab value v other than "0" and a condition whose first
\* operator and number are (op, t), op one of > >= < <=, the decision
\* recorded is passed = (v op t), compared as numbers.
C7_NumericComparison ==
    (/\ e_done
     /\ e_lab_value # None /\ e_lab_value[1] # <<"0">>
     /\ findall(e_condition) # <<>>
     /\ e_op \in {<<">">>, <<">", "=">>, <<"<">>, <<"<", "=">>}) =>
        /\ ~e_result[1].raised
        /\ e_result[1].filter_condition =
              << <<e_condition, Compare(e_op, LitValue(e_lab_value[1]), e_threshold)>> >>

\* C18: for a present lab value v other than "0" and a condition whose first
\* operator and number are ("=", t), the decision recorded is
\* passed = (v equals t), and no exception is raised.
C18_EqualsOperator ==
    (/\ e_done
     /\ e_lab_value # None /\ e_lab_value[1] # <<"0">>
     /\ findall(e_condition) # <<>>
     /\ e_op = <<"=">>) =>
        /\ ~e_result[1].raised
        /\ e_result[1].filter_condition =
              << <<e_condition,
                   Compare(<<"=", "=">>, LitValue(e_lab_value[1]), e_threshold)>> >>

----------------------------------------------------------------------------
(* filter_by_inclusion_criteria (patient.py 187-258) and the chunk tasks   *)
(* it spawns (filter_trials_from_description, patient.py 261-293)          *)

max_trials_in_future == 10

\* The inner loop with the test  cnt < max_trials_in_future.
RECURSIVE InnerWhile_OffByOne(_, _, _, _)
InnerWhile_OffByOne(trial_list, next_future, cnt, trials) ==
    IF next_future < Len(trial_list) /\ cnt < max_trials_in_future
    THEN InnerWhile_OffByOne(trial_list, next_future + 1, cnt + 1,
                             Append(trials, trial_list[next_future + 1]))
    ELSE [trials |-> trials, next_future |-> next_future]

\* The inner while loop (patient.py 211-214): the chunk gathered and the
\* index reached.
RECURSIVE InnerWhile(_, _, _, _)
InnerWhile(trial_list, next_future, cnt, trials) ==
    IF next_future < Len(trial_list) /\ cnt <= max_trials_in_future
    THEN InnerWhile(trial_list, next_future + 1, cnt + 1,
                    Append(trials, trial_list[next_future + 1]))
    ELSE [trials |-> trials, next_future |-> next_future]

\* The outer while loop (patient.py 208-216): the chunks spawned, in order.
RECURSIVE OuterWhile(_, _)
OuterWhile(trial_list, next_future) ==
    IF next_future < Len(trial_list)
    THEN LET inner == InnerWhile(trial_list, next_future, 1, <<>>)
         IN  <<inner.trials>> \o OuterWhile(trial_list, inner.next_future)
    ELSE <<>>

\* The trial lists handed to spawn() for one trialset (patient.py 202-216).
ChunksOf(trial_list) ==
    IF Len(trial_list) <= max_trials_in_future THEN <<trial_list>>
    ELSE OuterWhile(trial_list, 0)

\* A greenlet running filter_trials_from_description(trials, lab_results).
\* set, conds and decisions are history: the trialset that spawned the task
\* and, for each trial processed, the conditions find_conditions returned
\* and trial.filter_condition as the turn of the loop left it.  rank is the
\* place of the greenlet in the order in which the greenlets ended, 0 while
\* it runs.
NewTask(ncit, set, trials) ==
    [ncit |-> ncit, set |-> set, trials |-> trials, next |-> 1,
     filtered_trials |-> <<>>, excluded_trials |-> <<>>, conds |-> <<>>,
     decisions |-> <<>>, state |-> "running", rank |-> 0]

\* ---- the trials and the detection service of the model

Ge == <<" ", ">", "=", " ">>
CommaSpace == <<",", " ">>
HemoglobinGe9 == Hemoglobin \o Ge \o <<"9", " ", "g", "/", "d", "l">>
PlateletsGe1000 == Platelets \o Ge \o <<"1", ",", "0", "0", "0", "/", "u", "l">>
PlateletsEq1000 == Platelets \o <<" ", "=", " ", "1", "0", "0", "0", "/", "u", "l">>
LeukocytesGe30 == Leukocytes \o Ge \o <<"3", "0", "/", "m", "c", "l">>

Inclusion(text) == [inclusion_indicator |-> TRUE, description |-> text]
Exclusion(text) == [inclusion_indicator |-> FALSE, description |-> text]

\* trial.trial_json, reduced to $.eligibility.unstructured.
TrialKinds == <<
    \* 1: no eligibility text
    <<>>,
    \* 2: one well-formed mention of each cell type
    <<Inclusion(HemoglobinGe9 \o CommaSpace \o PlateletsGe1000
                  \o CommaSpace \o LeukocytesGe30)>>,
    \* 3: two of the three cell types
    <<Inclusion(PlateletsGe1000 \o CommaSpace \o LeukocytesGe30)>>,
    \* 4: a cell type without operator and number
    <<Inclusion(<<"a", "g", "e", " ", ">", " ", "1", "8">>),
      Inclusion(Platelets \o <<" ", "n", "o", "r", "m", "a", "l">>)>>,
    \* 5: the three cell types, one with the operator =
    <<Inclusion(HemoglobinGe9 \o CommaSpace \o PlateletsEq1000
                  \o CommaSpace \o LeukocytesGe30)>>,
    \* 6: text that names no cell type among the inclusion criteria
    <<Inclusion(<<"a", "g", "e", " ", ">", " ", "1", "8">>),
      Exclusion(PlateletsGe1000)>>,
    \* 7: "platelets >= 100000/ul, leukocytes >= 3000/mcl"
    <<Inclusion(Platelets \o Ge \o <<"1", "0", "0", "0", "0", "0", "/", "u", "l">>
                  \o CommaSpace
                  \o Leukocytes \o Ge \o <<"3", "0", "0", "0", "/", "m", "c", "l">>)>>
>>

RichTrials == 1..Len(TrialKinds)
PlainKinds == <<1, 2, 6>>
MaxTrials == 21
AllTrials == 1..(Len(TrialKinds) + MaxTrials)

TrialJson(trial) ==
    IF trial \in RichTrials THEN TrialKinds[trial]
    ELSE TrialKinds[PlainKinds[(trial % Len(PlainKinds)) + 1]]

Entity(text, attributes) == [Text |-> text, Attributes |-> attributes]

\* What client.detect_entities(Text=...) may do (patient.py 345).
ServiceResponses == {
    [raises |-> TRUE, Entities |-> <<>>],
    [raises |-> FALSE, Entities |-> <<>>],
    [raises |-> FALSE,
     Entities |-> <<Entity(Platelets, << <<">", "=", " ", "1", "0", "0", "0">> >>)>>],
    [raises |-> FALSE,
     Entities |-> <<Entity(Platelets, << <<" ", "n", "o", "r", "m", "a", "l">> >>)>>],
    [raises |-> FALSE,
     Entities |-> <<Entity(Leukocytes, << <<"<", "5", "0">>, <<"x">> >>),
                    Entity(<<"P">> \o Tail(Platelets), << <<">", "5">> >>),
                    Entity(<<"a", "g", "e">>, << <<">", " ", "1", "8">> >>),
                    Entity(Hemoglobin, <<>>)>>]
}

Lab(text) == <<text, "u">>

\* values_by_cell_type of get_lab_observations_by_patient (patient.py 183).
LabMapList == <<
    [c \in {Hemoglobin, Platelets, Leukocytes} |->
        IF c = Hemoglobin THEN Lab(<<"9", ".", "5">>)
        ELSE IF c = Platelets THEN Lab(<<"9", "0", "0">>)
        ELSE Lab(<<"4", "0">>)],
    [c \in {Platelets, Leukocytes} |->
        IF c = Platelets THEN Lab(<<"2", "0", "0", "0">>) ELSE Lab(<<"4", "0">>)],
    [c \in {Platelets, Leukocytes} |->
        IF c = Platelets THEN Lab(<<"0">>) ELSE Lab(<<"4", "0">>)],
    <<>>,
    [c \in {Platelets, Leukocytes} |->
        IF c = Platelets THEN Lab(<<"9", "0", "0", "0", "0">>)
        ELSE Lab(<<"4", "0", "0", "0">>)]
>>
LabMaps == {LabMapList[i] : i \in 1..Len(LabMapList)}

NcitCodes == {"C123", "C456"}
Ncit(code) == [ncit |-> code]
Trialset(code, trial_list) == [ncit |-> Ncit(code), trials |-> trial_list]

LongSets ==
    {Trialset("C123", [i \in 1..n |-> Len(TrialKinds) + i]) : n \in 0..MaxTrials}
RichLists ==
    {<<>>} \cup {<<i>> : i \in RichTrials}
           \cup {<<i, i + 1>> : i \in RichTrials \ {Len(TrialKinds)}}
RichSets == {Trialset(c, l) : c \in NcitCodes, l \in RichLists}
SingleSets == {s \in RichSets : Len(s.trials) <= 1}
\* A second trialset after a long one: the first trial of the long list
\* again under the same code, or a trial of its own under another code.
SharedSets == {Trialset("C123", <<Len(TrialKinds) + 1>>), Trialset("C456", <<2>>)}

\* A list in two chunks, the first trial of each chunk one that has the
\* detection service called.
RacingSet ==
    Trialset("C123", <<3>> \o [i \in 1..(max_trials_in_future - 1) |-> Len(TrialKinds) + i]
                          \o <<4, Len(TrialKinds) + max_trials_in_future>>)

\* The same, the one trial object first in both chunks.
SharedRacingSet ==
    Trialset("C123", <<3>> \o [i \in 1..(max_trials_in_future - 1) |-> Len(TrialKinds) + i]
                          \o <<3, Len(TrialKinds) + max_trials_in_future>>)

Inputs ==
    {<<>>} \cup {<<s>> : s \in LongSets \cup RichSets \cup {RacingSet, SharedRacingSet}}
           \cup {<<s1, s2>> : s1 \in SingleSets, s2 \in SingleSets}
           \cup {<<s1, s2>> : s1 \in LongSets, s2 \in SharedSets}

Init ==
    /\ trials_by_ncit \in Inputs
    /\ \E i \in 1..Len(LabMapList) : lab_results = LabMapList[i]
    /\ pc = "for"
    /\ set_idx = 1
    /\ tasks = <<>>
    /\ waited = {}
    /\ filtered = <<>>
    /\ excluded = <<>>
    /\ ncit_codes = <<>>
    /\ filtered_trials_by_ncit = <<>>
    /\ excluded_trials_by_ncit = <<>>
    /\ filter_condition = [t \in AllTrials |-> <<>>]
    /\ EvalIdle
    /\ UmlsIdle
    /\ NciIdle
    /\ ObsIdle
    /\ FindIdle

inputVars == <<trials_by_ncit, lab_results>>
mergeVars == <<filtered, excluded, ncit_codes>>
outputVars == <<filtered_trials_by_ncit, excluded_trials_by_ncit>>

\* One turn of the for loop up to the call of iwait (patient.py 201-226).
SpawnTasks ==
    /\ pc = "for"
    /\ set_idx <= Len(trials_by_ncit)
    /\ LET trialset == trials_by_ncit[set_idx]
           chunks == ChunksOf(trialset.trials)
       IN  tasks' = tasks \o [k \in 1..Len(chunks) |->
                                NewTask(trialset.ncit, set_idx, chunks[k])]
    /\ filtered' = <<>>
    /\ excluded' = <<>>
    /\ ncit_codes' = <<>>
    /\ filtered_trials_by_ncit' = <<>>
    /\ excluded_trials_by_ncit' = <<>>
    /\ waited' = {}
    /\ pc' = "iwait"
    /\ UNCHANGED <<inputVars, set_idx, filter_condition, evalVars, umlsVars, nciVars, obsVars, findVars>>

CurrentTrial(t) == tasks[t].trials[tasks[t].next]

\* ---- the greenlets on the hub.  A greenlet runs from its start, or from
\* the answer of the detection service it waited for, until it calls the
\* service or ends; nothing else runs meanwhile.  The greenlets spawned are
\* started in spawn order before any answer arrives, and answers arrive in
\* any order.

\* The number of calls of the detection service find_conditions makes for
\* each trial.
CallsOfTrial == [trial \in AllTrials |-> ServiceCalls(TrialJson(trial))]

Ended == {t \in 1..Len(tasks) : tasks[t].state # "running"}
Running(t) == tasks[t].state = "running"
AtEnd(t) == tasks[t].next > Len(tasks[t].trials)
\* The next thing the greenlet does is to call the detection service.
AtCall(t) == ~AtEnd(t) /\ CallsOfTrial[CurrentTrial(t)] > 0
\* The greenlet is the one running: it went through a turn of its loop and
\* has not reached a call of the service.
Holder(t) == Running(t) /\ tasks[t].next > 1 /\ ~AtCall(t)
\* The greenlet has not run and does something before its first call.
NeedsStart(t) == Running(t) /\ tasks[t].next = 1 /\ ~AtCall(t)
MayRun(t) ==
    /\ Running(t)
    /\ \A o \in 1..Len(tasks) : Holder(o) => o = t
    /\ ~Holder(t) => \A o \in 1..Len(tasks) : NeedsStart(o) => t <= o
    /\ AtCall(t) => \A o \in 1..Len(tasks) : ~NeedsStart(o)
\* The hub has nothing to run but the waiting orchestrator.
HubFree == \A o \in 1..Len(tasks) : ~Holder(o) /\ ~NeedsStart(o)

\* The task after one turn of its loop, r being the classification of the
\* trial.  An exception of eval() ends the greenlet.
TaskAfter(task, trial, conditions, r) ==
    [task EXCEPT
        !.conds = Append(@, conditions),
        !.decisions = Append(@, r.filter_condition),
        !.state = IF r.raised THEN "failed" ELSE @,
        !.rank = IF r.raised THEN Cardinality(Ended) + 1 ELSE @,
        !.next = IF r.raised THEN @ ELSE @ + 1,
        !.filtered_trials = IF r.placed = "filtered" THEN Append(@, trial) ELSE @,
        !.excluded_trials = IF r.placed = "excluded" THEN Append(@, trial) ELSE @]

\* The turn without the reset of line 272: the decisions are appended to
\* those the trial already carries.
TrialClassified_NoReset(t, trial, conditions, r) ==
    /\ filter_condition' =
          [filter_condition EXCEPT ![trial] = @ \o r.filter_condition]
    /\ tasks' = [tasks EXCEPT ![t] = TaskAfter(@, trial, conditions, r)]

\* Lines 272-292 for one trial: trial.filter_condition is reset and filled,
\* and the trial is put on a list of the task.
TrialClassified(t, trial, conditions, r) ==
    /\ filter_condition' = [filter_condition EXCEPT ![trial] = r.filter_condition]
    /\ tasks' = [tasks EXCEPT ![t] = TaskAfter(@, trial, conditions, r)]

TrialProcessed(t, trial, conditions) ==
    TrialClassified(t, trial, conditions, ClassifyTrial(lab_results, conditions))

\* One turn of the loop over trials in a chunk task (patient.py 270-292),
\* run while the orchestrator is blocked in iwait.
TaskStep(t) ==
    /\ pc = "iwait"
    /\ MayRun(t)
    /\ ~AtEnd(t)
    /\ \E responses \in [1..CallsOfTrial[CurrentTrial(t)] -> ServiceResponses] :
          TrialProcessed(t, CurrentTrial(t),
                         find_conditions(TrialJson(CurrentTrial(t)), responses).conditions)
    /\ UNCHANGED <<inputVars, pc, set_idx, waited, mergeVars, outputVars,
                   evalVars, umlsVars, nciVars, obsVars, findVars>>

\* The return of a chunk task (patient.py 293).
TaskReturn(t) ==
    /\ pc = "iwait"
    /\ MayRun(t)
    /\ AtEnd(t)
    /\ tasks' = [tasks EXCEPT ![t].state = "done", ![t].rank = Cardinality(Ended) + 1]
    /\ UNCHANGED <<inputVars, pc, set_idx, waited, mergeVars, outputVars,
                   filter_condition, evalVars, umlsVars, nciVars, obsVars, findVars>>

\* iwait(tasks): the greenlet it yields next.  Those that had ended when
\* iwait was called, the tasks of the earlier trialsets, come first, in the
\* order of the dict; the others come in the order in which they end.
IwaitYields(t) ==
    /\ t \notin waited
    /\ tasks[t].state # "running"
    /\ HubFree
    /\ \A o \in 1..Len(tasks) \ waited :
          /\ tasks[o].set < set_idx /\ tasks[t].set < set_idx => t <= o
          /\ tasks[o].set < set_idx => tasks[t].set < set_idx
          /\ tasks[t].set = set_idx /\ tasks[o].state # "running"
                => tasks[t].rank <= tasks[o].rank

\* The merge with the entry of a code made only when the task has a trial
\* to put in it.
MergeTask_KeysOnDemand(t) ==
    /\ pc = "iwait"
    /\ IwaitYields(t)
    /\ ncit_codes' = IF HasKey(ncit_codes, tasks[t].ncit.ncit) THEN ncit_codes
                     ELSE SetItem(ncit_codes, tasks[t].ncit.ncit, tasks[t].ncit)
    /\ IF tasks[t].state = "failed"
       THEN /\ filtered' = filtered
            /\ excluded' = excluded
            /\ pc' = "raised"
       ELSE /\ filtered' =
                  IF tasks[t].filtered_trials = <<>> THEN filtered
                  ELSE SetItem(filtered, tasks[t].ncit.ncit,
                          (IF HasKey(filtered, tasks[t].ncit.ncit)
                           THEN ValueOf(filtered, tasks[t].ncit.ncit) ELSE <<>>)
                             \o tasks[t].filtered_trials)
            /\ excluded' =
                  IF tasks[t].excluded_trials = <<>> THEN excluded
                  ELSE SetItem(excluded, tasks[t].ncit.ncit,
                          (IF HasKey(excluded, tasks[t].ncit.ncit)
                           THEN ValueOf(excluded, tasks[t].ncit.ncit) ELSE <<>>)
                             \o tasks[t].excluded_trials)
            /\ pc' = pc
    /\ waited' = waited \cup {t}
    /\ UNCHANGED <<inputVars, set_idx, tasks, outputVars, filter_condition,
                   evalVars, umlsVars, nciVars, obsVars, findVars>>

\* The merge with the lists of a code assigned, not extended.
MergeTask_Overwrites(t) ==
    /\ pc = "iwait"
    /\ IwaitYields(t)
    /\ ncit_codes' = IF HasKey(ncit_codes, tasks[t].ncit.ncit) THEN ncit_codes
                     ELSE SetItem(ncit_codes, tasks[t].ncit.ncit, tasks[t].ncit)
    /\ IF tasks[t].state = "failed"
       THEN /\ filtered' = filtered
            /\ excluded' = excluded
            /\ pc' = "raised"
       ELSE /\ filtered' = SetItem(filtered, tasks[t].ncit.ncit, tasks[t].filtered_trials)
            /\ excluded' = SetItem(excluded, tasks[t].ncit.ncit, tasks[t].excluded_trials)
            /\ pc' = pc
    /\ waited' = waited \cup {t}
    /\ UNCHANGED <<inputVars, set_idx, tasks, outputVars, filter_condition,
                   evalVars, umlsVars, nciVars, obsVars, findVars>>

\* One turn of the loop over iwait(tasks) (patient.py 228-243).  The value
\* of a greenlet that died is None, and unpacking it raises.
MergeTask(t) ==
    /\ pc = "iwait"
    /\ IwaitYields(t)
    /\ LET ncit_code == tasks[t].ncit.ncit
           codes1 == IF HasKey(ncit_codes, ncit_code) THEN ncit_codes
                     ELSE SetItem(ncit_codes, ncit_code, tasks[t].ncit)
           filtered1 == IF HasKey(filtered, ncit_code) THEN filtered
                        ELSE SetItem(filtered, ncit_code, <<>>)
           excluded1 == IF HasKey(excluded, ncit_code) THEN excluded
                        ELSE SetItem(excluded, ncit_code, <<>>)
       IN  /\ ncit_codes' = codes1
           /\ IF tasks[t].state = "failed"
              THEN /\ filtered' = filtered1
                   /\ excluded' = excluded1
                   /\ pc' = "raised"
              ELSE /\ filtered' = SetItem(filtered1, ncit_code,
                          ValueOf(filtered1, ncit_code) \o tasks[t].filtered_trials)
                   /\ excluded' = SetItem(excluded1, ncit_code,
                          ValueOf(excluded1, ncit_code) \o tasks[t].excluded_trials)
                   /\ pc' = pc
    /\ waited' = waited \cup {t}
    /\ UNCHANGED <<inputVars, set_idx, tasks, outputVars, filter_condition,
                   evalVars, umlsVars, nciVars, obsVars, findVars>>

\* The groups built as soon as one task was merged.
BuildGroups_AfterFirst ==
    /\ pc = "iwait"
    /\ waited # {}
    /\ filtered_trials_by_ncit' =
          [i \in 1..Len(filtered) |->
              [ncit |-> ValueOf(ncit_codes, filtered[i][1]), trials |-> filtered[i][2]]]
    /\ excluded_trials_by_ncit' =
          [i \in 1..Len(excluded) |->
              [ncit |-> ValueOf(ncit_codes, excluded[i][1]), trials |-> excluded[i][2]]]
    /\ set_idx' = set_idx + 1
    /\ pc' = "for"
    /\ UNCHANGED <<inputVars, tasks, waited, mergeVars, filter_condition,
                   evalVars, umlsVars, nciVars, obsVars, findVars>>

\* iwait(tasks) is exhausted: the groups are built (patient.py 245-249) and
\* the for loop goes to the next trialset.
BuildGroups ==
    /\ pc = "iwait"
    /\ \A t \in 1..Len(tasks) : t \in waited
    /\ filtered_trials_by_ncit' =
          [i \in 1..Len(filtered) |->
              [ncit |-> ValueOf(ncit_codes, filtered[i][1]), trials |-> filtered[i][2]]]
    /\ excluded_trials_by_ncit' =
          [i \in 1..Len(excluded) |->
              [ncit |-> ValueOf(ncit_codes, excluded[i][1]), trials |-> excluded[i][2]]]
    /\ set_idx' = set_idx + 1
    /\ pc' = "for"
    /\ UNCHANGED <<inputVars, tasks, waited, mergeVars, filter_condition,
                   evalVars, umlsVars, nciVars, obsVars, findVars>>

\* The for loop is over (patient.py 258).
Return ==
    /\ pc = "for"
    /\ set_idx > Len(trials_by_ncit)
    /\ pc' = "returned"
    /\ UNCHANGED <<inputVars, set_idx, tasks, waited, mergeVars, outputVars,
                   filter_condition, evalVars, umlsVars, nciVars, obsVars, findVars>>

Next ==
    \/ SpawnTasks
    \/ \E t \in 1..Len(tasks) : TaskStep(t)
    \/ \E t \in 1..Len(tasks) : TaskReturn(t)
    \/ \E t \in 1..Len(tasks) : MergeTask(t)
    \/ BuildGroups
    \/ Return

Spec == Init /\ [][Next]_vars

\* ---- what the tasks did, read off their history

InList(list, x) == \E i \in 1..Len(list) : list[i] = x
CountIn(list, x) == Cardinality({i \in 1..Len(list) : list[i] = x})

\* <<t, k>>: task t went through the loop body for its k-th trial.
Turns == UNION {{<<t, k>> : k \in 1..Len(tasks[t].conds)} : t \in 1..Len(tasks)}
TurnTrial(u) == tasks[u[1]].trials[u[2]]
TurnConds(u) == tasks[u[1]].conds[u[2]]
TurnDecisions(u) == tasks[u[1]].decisions[u[2]]
InFiltered(u) == InList(tasks[u[1]].filtered_trials, TurnTrial(u))
InExcluded(u) == InList(tasks[u[1]].excluded_trials, TurnTrial(u))

\* The conditions of the turn that have a decision: all of them, or those
\* before the one whose evaluation raised.
DecidedItems(u) ==
    IF TurnConds(u) = <<>> THEN {} ELSE 1..Len(TurnDecisions(u))

LabOf(item) == Get(lab_results, item[1])
Complete(item) == findall(item[2]) # <<>>
EvalText(item) == LabOf(item)[1] \o Remove(findall(item[2])[1], ",")
ItemEvaluated(item) ==
    LabOf(item) # None /\ Complete(item) /\ LabOf(item)[1] # <<"0">>
ItemRaises(item) == ItemEvaluated(item) /\ PyEval(EvalText(item)).raised
ItemFails(item) ==
    /\ LabOf(item) # None
    /\ \/ ~Complete(item)
       \/ LabOf(item)[1] = <<"0">>
       \/ ~PyEval(EvalText(item)).raised /\ ~PyEval(EvalText(item)).truthy
SomeItem(conditions, P(_)) == \E i \in 1..Len(conditions) : P(conditions[i])

\* A complete condition, with a lab value, that the comparison finds false.
CompleteAndFalse(item) ==
    /\ LabOf(item) # None
    /\ Complete(item)
    /\ ~PyEval(EvalText(item)).truthy

\* C1 as stated: a trial is excluded if and only if one of its complete
\* conditions (operator and number extractable) evaluates to false against
\* the lab value; a condition that is not complete never excludes.
C1_ExcludedIffCompleteConditionFalse ==
    \A u \in Turns :
        ~SomeItem(TurnConds(u), ItemRaises)
            => (InExcluded(u) <=> SomeItem(TurnConds(u), CompleteAndFalse))

\* C1 amended: a trial is excluded if and only if the evaluation of none of
\* its conditions raises and, for one of its conditions whose cell type has
\* a lab value, no operator and number can be extracted, or the lab value
\* is "0", or the comparison is false; a trial with a condition whose
\* evaluation raises is in neither list.
C1_ExcludedIffSomeConditionFails ==
    \A u \in Turns :
        /\ InExcluded(u) <=> /\ ~SomeItem(TurnConds(u), ItemRaises)
                             /\ SomeItem(TurnConds(u), ItemFails)
        /\ SomeItem(TurnConds(u), ItemRaises) => ~InFiltered(u) /\ ~InExcluded(u)

\* A trial excluded by a condition without operator and number, the
\* fallback's unparsed entry.
C1_Witness ==
    \E u \in Turns :
        /\ InExcluded(u)
        /\ \E i \in 1..Len(TurnConds(u)) :
              /\ LabOf(TurnConds(u)[i]) # None
              /\ ~Complete(TurnConds(u)[i])
              /\ TurnDecisions(u)[i] = <<TurnConds(u)[i][2], FALSE>>

\* C2: a trial for which find_conditions returns no condition is appended to
\* the filtered list, not to the excluded list, and its filter_condition is
\* the one decision ('No Inclusion Criteria Found', True).
C2_ZeroConditionsFilteredIn ==
    \A u \in Turns :
        TurnConds(u) = <<>>
            => /\ InFiltered(u)
               /\ ~InExcluded(u)
               /\ Len(TurnDecisions(u)) = 1
               /\ TurnDecisions(u)[1] = <<NoCriteria, TRUE>>

\* A trial whose text names a cell type, left without conditions by the
\* fallback, while the patient has lab values.
C2_Witness ==
    \E u \in Turns :
        /\ TurnConds(u) = <<>>
        /\ CallsFallback(TrialJson(TurnTrial(u)))
        /\ lab_results # <<>>
        /\ InFiltered(u)

\* C3: the decision recorded for a condition whose cell type has no lab
\* value is passed=true, and a trial that is excluded has a failed decision
\* on a condition whose cell type does have a lab value.
C3_MissingLabPasses ==
    \A u \in Turns :
        /\ \A i \in DecidedItems(u) :
              LabOf(TurnConds(u)[i]) = None
                  => TurnDecisions(u)[i] = <<TurnConds(u)[i][2], TRUE>>
        /\ InExcluded(u)
              => \E i \in DecidedItems(u) :
                    /\ LabOf(TurnConds(u)[i]) # None
                    /\ TurnDecisions(u)[i][2] = FALSE

\* A trial excluded by one condition while another of its conditions has no
\* lab value.
C3_Witness ==
    \E u \in Turns :
        /\ InExcluded(u)
        /\ \E i \in DecidedItems(u) :
              /\ LabOf(TurnConds(u)[i]) = None
              /\ TurnDecisions(u)[i][2] = TRUE

\* ---- the groups returned, per code

InputCodes == {trials_by_ncit[s].ncit.ncit : s \in 1..Len(trials_by_ncit)}

\* How often trial x is listed under code c in a list of {ncit, trials}.
Occurrences(groups, c, x) ==
    Cardinality(
        {p \in UNION {{<<g, i>> : i \in 1..Len(groups[g].trials)} : g \in 1..Len(groups)} :
            groups[p[1]].ncit.ncit = c /\ groups[p[1]].trials[p[2]] = x})

\* How often the tasks of code c put trial x on their list.
TaskOccurrences(c, x, filtered_side) ==
    Cardinality(
        {p \in UNION {{<<t, i>> : i \in 1..(IF filtered_side
                                            THEN Len(tasks[t].filtered_trials)
                                            ELSE Len(tasks[t].excluded_trials))} :
                      t \in 1..Len(tasks)} :
            /\ tasks[p[1]].ncit.ncit = c
            /\ x = IF filtered_side THEN tasks[p[1]].filtered_trials[p[2]]
                   ELSE tasks[p[1]].excluded_trials[p[2]]})

GroupCodes(groups) == {groups[g].ncit.ncit : g \in 1..Len(groups)}

\* C4: when filter_by_inclusion_criteria returns, the filtered and excluded
\* groups of a code together list every trial given under that code exactly
\* as often as it was given, and no group has a code that was not given.
C4_PartitionPerCode ==
    pc = "returned" =>
        /\ \A c \in InputCodes : \A x \in AllTrials :
              Occurrences(filtered_trials_by_ncit, c, x)
                + Occurrences(excluded_trials_by_ncit, c, x)
                  = Occurrences(trials_by_ncit, c, x)
        /\ GroupCodes(filtered_trials_by_ncit) \subseteq InputCodes
        /\ GroupCodes(excluded_trials_by_ncit) \subseteq InputCodes

\* The return for a code given in two trialsets, the first in several
\* chunks, with trials on both sides.
C4_Witness ==
    /\ pc = "returned"
    /\ Len(trials_by_ncit) = 2
    /\ trials_by_ncit[1].ncit = trials_by_ncit[2].ncit
    /\ Len(trials_by_ncit[1].trials) > max_trials_in_future
    /\ \E g \in 1..Len(filtered_trials_by_ncit) : filtered_trials_by_ncit[g].trials # <<>>
    /\ \E g \in 1..Len(excluded_trials_by_ncit) : excluded_trials_by_ncit[g].trials # <<>>

\* C8: filter_by_inclusion_criteria returns only when every task it spawned
\* has finished, and the groups it returns hold the results of every task:
\* each trial a task of a code put on its filtered (excluded) list is in the
\* filtered (excluded) group of that code, as often.
C8_FanInComplete ==
    pc = "returned" =>
        /\ \A t \in 1..Len(tasks) : tasks[t].state = "done"
        /\ \A c \in InputCodes : \A x \in AllTrials :
              /\ Occurrences(filtered_trials_by_ncit, c, x) = TaskOccurrences(c, x, TRUE)
              /\ Occurrences(excluded_trials_by_ncit, c, x) = TaskOccurrences(c, x, FALSE)

\* The return after three chunk tasks of one code, the last one with
\* results of its own.
C8_Witness ==
    /\ pc = "returned"
    /\ Len(tasks) >= 3
    /\ tasks[1].ncit = tasks[3].ncit
    /\ tasks[3].filtered_trials \o tasks[3].excluded_trials # <<>>
    /\ \A t \in 1..Len(tasks) : tasks[t].state = "done"

\* ---- the tasks spawned, per trialset

Spawned(s) == s < set_idx \/ (s = set_idx /\ pc \in {"iwait", "raised"})
TasksOfSet(s) == {t \in 1..Len(tasks) : tasks[t].set = s}
CeilDiv(n, d) == (n + d - 1) \div d

\* C9 as stated: a trial list of N trials, N >= 0, is given to exactly
\* ceil(N/10) tasks, each over at most 10 trials.
C9_CeilTasks ==
    \A s \in 1..Len(trials_by_ncit) :
        Spawned(s) =>
            /\ Cardinality(TasksOfSet(s))
                  = CeilDiv(Len(trials_by_ncit[s].trials), max_trials_in_future)
            /\ \A t \in TasksOfSet(s) : Len(tasks[t].trials) <= max_trials_in_future

\* C9 amended: a trial list of N >= 1 trials is given to exactly ceil(N/10)
\* tasks, each over at least 1 and at most 10 trials; an empty trial list
\* is given to exactly one task, over no trial.
C9_CeilTasksOrOne ==
    \A s \in 1..Len(trials_by_ncit) :
        Spawned(s) =>
            IF Len(trials_by_ncit[s].trials) >= 1
            THEN /\ Cardinality(TasksOfSet(s))
                       = CeilDiv(Len(trials_by_ncit[s].trials), max_trials_in_future)
                 /\ \A t \in TasksOfSet(s) :
                       Len(tasks[t].trials) \in 1..max_trials_in_future
            ELSE /\ Cardinality(TasksOfSet(s)) = 1
                 /\ \A t \in TasksOfSet(s) : tasks[t].trials = <<>>

\* A list of 21 trials given to three tasks.
C9_Witness ==
    \E s \in 1..Len(trials_by_ncit) :
        /\ Spawned(s)
        /\ Len(trials_by_ncit[s].trials) = 2 * max_trials_in_future + 1
        /\ Cardinality(TasksOfSet(s)) = 3

\* ---- the example: one code, one trial, two cell types in its text

ExampleTrial == Len(TrialKinds)
ExampleInput ==
    /\ trials_by_ncit = <<Trialset("C123", <<ExampleTrial>>)>>
    /\ lab_results = LabMapList[Len(LabMapList)]
\* What the detection service makes of the trial's text with one answer.
ExampleDetected(response) ==
    DetectChunks(get_description(UnstructuredDescriptions(TrialJson(ExampleTrial))),
                 <<response>>, <<>>)
ExampleIn(groups) == Occurrences(groups, "C123", ExampleTrial)

\* C15 as stated: the trial "platelets >= 100000/ul, leukocytes >= 3000/mcl"
\* with labs platelets 90000 and leukocytes 4000 is returned in the excluded
\* group and not in the filtered group, whatever the detection service does.
C15_ExampleExcluded ==
    (pc = "returned" /\ ExampleInput) =>
        /\ ExampleIn(excluded_trials_by_ncit) = 1
        /\ ExampleIn(filtered_trials_by_ncit) = 0

\* C15 amended: the conditions of the trial are those made from the one
\* answer of the detection service, the matches of the pattern dropped; the
\* trial is returned in the excluded group alone when one of these
\* conditions fails against the labs, and in the filtered group alone when
\* none does, as when the service fails or answers without entity.
C15_ExampleFollowsFallback ==
    (pc = "returned" /\ ExampleInput) =>
        \E response \in ServiceResponses :
            /\ tasks[1].conds = <<ExampleDetected(response)>>
            /\ ExampleIn(excluded_trials_by_ncit) =
                  IF SomeItem(ExampleDetected(response), ItemFails) THEN 1 ELSE 0
            /\ ExampleIn(filtered_trials_by_ncit) =
                  IF SomeItem(ExampleDetected(response), ItemFails) THEN 0 ELSE 1
            /\ (response.raises \/ response.Entities = <<>>) =>
                  ExampleIn(filtered_trials_by_ncit) = 1

\* The example returned with the trial filtered in, the service having left
\* it without condition.
C15_Witness ==
    /\ pc = "returned"
    /\ ExampleInput
    /\ tasks[1].conds = << <<>> >>
    /\ ExampleIn(filtered_trials_by_ncit) = 1
    /\ ExampleIn(excluded_trials_by_ncit) = 0

\* ---- the groups and their order

GroupsOf(groups, c) == {g \in 1..Len(groups) : groups[g].ncit.ncit = c}
\* The code is given with a trial in one of its trialsets.
HasTrials(c) ==
    \E s \in 1..Len(trials_by_ncit) :
        trials_by_ncit[s].ncit.ncit = c /\ trials_by_ncit[s].trials # <<>>

\* C16 as stated: at the return each of the two lists holds exactly one
\* group for every code given with a trial, and no group for a code given
\* without trial.
C16_GroupPerCodeWithTrials ==
    pc = "returned" =>
        \A c \in InputCodes :
            /\ Cardinality(GroupsOf(filtered_trials_by_ncit, c))
                  = IF HasTrials(c) THEN 1 ELSE 0
            /\ Cardinality(GroupsOf(excluded_trials_by_ncit, c))
                  = IF HasTrials(c) THEN 1 ELSE 0

\* C16 amended: at the return each of the two lists holds exactly one group
\* for every code given, whatever the number of trialsets that name it, and
\* no group for another code; the groups of a code given without trial hold
\* no trial.
C16_GroupPerCode ==
    pc = "returned" =>
        /\ GroupCodes(filtered_trials_by_ncit) \subseteq InputCodes
        /\ GroupCodes(excluded_trials_by_ncit) \subseteq InputCodes
        /\ \A c \in InputCodes :
              /\ Cardinality(GroupsOf(filtered_trials_by_ncit, c)) = 1
              /\ Cardinality(GroupsOf(excluded_trials_by_ncit, c)) = 1
              /\ ~HasTrials(c) =>
                    /\ \A g \in GroupsOf(filtered_trials_by_ncit, c) :
                          filtered_trials_by_ncit[g].trials = <<>>
                    /\ \A g \in GroupsOf(excluded_trials_by_ncit, c) :
                          excluded_trials_by_ncit[g].trials = <<>>

\* The return for a code given without trial and another code given with
\* one: two groups in each list.
C16_Witness ==
    /\ pc = "returned"
    /\ Len(trials_by_ncit) = 2
    /\ trials_by_ncit[1].ncit # trials_by_ncit[2].ncit
    /\ trials_by_ncit[1].trials = <<>>
    /\ trials_by_ncit[2].trials # <<>>
    /\ Len(filtered_trials_by_ncit) = 2
    /\ Len(excluded_trials_by_ncit) = 2

\* The dict code -> trials of the tasks t, t+1, ... merged in that order.
RECURSIVE MergedFrom(_, _, _)
MergedFrom(t, filtered_side, d) ==
    IF t > Len(tasks) THEN d
    ELSE MergedFrom(t + 1, filtered_side,
            SetItem(d, tasks[t].ncit.ncit,
                    (IF HasKey(d, tasks[t].ncit.ncit)
                     THEN ValueOf(d, tasks[t].ncit.ncit) ELSE <<>>)
                       \o (IF filtered_side THEN tasks[t].filtered_trials
                           ELSE tasks[t].excluded_trials)))
\* The groups of the run in which the tasks end in the order of their spawn.
SpawnOrderGroups(filtered_side) ==
    [i \in 1..Len(MergedFrom(1, filtered_side, <<>>)) |->
        [ncit |-> Ncit(MergedFrom(1, filtered_side, <<>>)[i][1]),
         trials |-> MergedFrom(1, filtered_side, <<>>)[i][2]]]

\* C17: with the same input and the same results of the tasks, the two
\* lists returned are the same in every run, whatever the order in which
\* the tasks end: they are the lists of the run in which the tasks end in
\* the order of their spawn, group by group and trial by trial.
C17_MergeDeterministic ==
    pc = "returned" =>
        /\ filtered_trials_by_ncit = SpawnOrderGroups(TRUE)
        /\ excluded_trials_by_ncit = SpawnOrderGroups(FALSE)

\* ---- the decisions a trial carries

TrialsGiven ==
    UNION {{trials_by_ncit[s].trials[i] : i \in 1..Len(trials_by_ncit[s].trials)} :
              s \in 1..Len(trials_by_ncit)}
\* The decisions are one per condition of the turn, in their order, or the
\* one default entry when the turn had no condition.
OnePerCondition(decisions, conditions) ==
    IF conditions = <<>> THEN decisions = << <<NoCriteria, TRUE>> >>
    ELSE /\ Len(decisions) = Len(conditions)
         /\ \A i \in 1..Len(conditions) :
               /\ decisions[i][1] = conditions[i][2]
               /\ decisions[i][2] \in BOOLEAN

\* C23: at the return every trial given carries the decisions of one turn
\* of one task on it, one per condition extracted in that turn or the one
\* default entry, whatever the tasks that went through the trial and the
\* order in which they ran.
C23_DecisionsOfOneTurn ==
    pc = "returned" =>
        \A x \in TrialsGiven :
            \E u \in Turns :
                /\ TurnTrial(u) = x
                /\ filter_condition[x] = TurnDecisions(u)
                /\ OnePerCondition(filter_condition[x], TurnConds(u))

\* The return after two tasks of one trialset went through the same trial
\* with different conditions, the second task ending first.
C23_Witness ==
    /\ pc = "returned"
    /\ Len(tasks) = 2
    /\ tasks[1].set = tasks[2].set
    /\ tasks[1].trials[1] = tasks[2].trials[1]
    /\ tasks[1].conds[1] # tasks[2].conds[1]
    /\ tasks[2].conds[1] # <<>>
    /\ tasks[2].rank < tasks[1].rank
    /\ filter_condition[tasks[1].trials[1]] # <<>>

----------------------------------------------------------------------------
(* SpecFind: find_conditions on one trial                                  *)

\* Lengths of the filler entries: one above the ceiling of a chunk, and one
\* such that two of them do not fit in a chunk.
LongLen == 20000
HalfLen == 10000
Filler(n) == SubSeq([i \in 1..n |-> "x"], 1, n)

Cond(cell, number, unit) == cell \o <<" ", ">", "=", " ">> \o number \o <<"/">> \o unit
HemoglobinCond == Cond(Hemoglobin, <<"9">>, <<"g", "d", "l">>)
PlateletsCond == Cond(Platelets, <<"1", "0", "0", "0", "0", "0">>, <<"u", "l">>)
LeukocytesCond == Cond(Leukocytes, <<"3", "0", "0", "0">>, <<"m", "c", "l">>)
PlateletsNormal == Platelets \o <<" ", "n", "o", "r", "m", "a", "l">>
AgeText == <<"a", "g", "e", " ", ">", " ", "1", "8">>

\* trial.trial_json['eligibility']['unstructured'] of the trials tried.
FindTrials == {
    <<>>,
    <<Inclusion(AgeText)>>,
    <<Inclusion(AgeText), Exclusion(PlateletsCond)>>,
    <<Inclusion(HemoglobinCond \o CommaSpace \o PlateletsCond \o CommaSpace \o LeukocytesCond)>>,
    <<Inclusion(HemoglobinCond), Inclusion(AgeText),
      Inclusion(<<"P">> \o Tail(PlateletsCond) \o CommaSpace \o LeukocytesCond)>>,
    <<Inclusion(Cond(Hemoglobin, <<"1", "0">>, <<"g", "d", "l">>) \o CommaSpace \o PlateletsCond),
      Inclusion(LeukocytesCond \o CommaSpace \o Cond(Hemoglobin, <<"1", "2">>, <<"g", "d", "l">>))>>,
    <<Inclusion(PlateletsCond \o CommaSpace \o LeukocytesCond)>>,
    <<Inclusion(PlateletsCond), Inclusion(AgeText)>>,
    <<Inclusion(PlateletsNormal), Inclusion(AgeText)>>,
    <<Inclusion(PlateletsNormal), Inclusion(Filler(LongLen))>>,
    <<Inclusion(PlateletsCond), Inclusion(Filler(HalfLen)), Inclusion(Filler(HalfLen))>>
}

InitFind ==
    /\ f_trial_json \in FindTrials
    /\ f_responses = <<>>
    /\ f_result = <<>>
    /\ FilterIdle
    /\ EvalIdle
    /\ UmlsIdle
    /\ NciIdle
    /\ ObsIdle

\* find_conditions(trial.trial_json), the detection service doing any of
\* the things it may do on each call.
FindConditions ==
    /\ f_result = <<>>
    /\ \E responses \in [1..ServiceCalls(f_trial_json) -> ServiceResponses] :
          /\ f_responses' = responses
          /\ f_result' = <<find_conditions(f_trial_json, responses)>>
    /\ UNCHANGED <<f_trial_json, filterVars, evalVars, umlsVars, nciVars, obsVars>>

NextFind == FindConditions

SpecFind == InitFind /\ [][NextFind]_vars

f_done == f_result # <<>>
f_entries == UnstructuredDescriptions(f_trial_json)
f_description == Description(f_entries)
\* The cell types the pattern recognises in the joined text.
f_recognised ==
    {condition_findall(f_description, 1)[k][2] :
        k \in 1..Len(condition_findall(f_description, 1))}

RECURSIVE Concat(_)
Concat(texts) == IF texts = <<>> THEN <<>> ELSE texts[1] \o Concat(Tail(texts))
NormalisedEntries == [i \in 1..Len(f_entries) |-> Normalise(f_entries[i])]
\* Whether the text is part of what consecutive calls were given.
Handed(text, calls) ==
    \E a \in 1..Len(calls) : \E b \in a..Len(calls) :
        Contains(Concat(SubSeq(calls, a, b)), text)

\* The entities of a response that make a condition: a tracked cell type
\* with an attribute.
Tracked(entity) ==
    /\ \E k \in 1..Len(cell_types) : cell_types[k] = Lower(entity.Text)
    /\ entity.Attributes # <<>>
MadeBy(response) ==
    {<<response.Entities[k].Text,
       response.Entities[k].Text \o response.Entities[k].Attributes[1]>> :
        k \in {j \in 1..Len(response.Entities) : Tracked(response.Entities[j])}}
Items(d) == {d[k] : k \in 1..Len(d)}
Keys(d) == {d[k][1] : k \in 1..Len(d)}

\* C13: when the joined text is not empty and the pattern recognises fewer
\* than 3 cell types, the detection service is called at least once, every
\* entry of the trial (in lower case, commas removed) is part of the texts
\* it is given, these texts hold nothing else, and every condition returned
\* is one made from an entity of a response of the service.
C13_FallbackOverWholeText ==
    (f_done /\ f_description # <<>> /\ Cardinality(f_recognised) < 3) =>
        /\ Len(f_result[1].calls) >= 1
        /\ Len(Concat(f_result[1].calls)) = Len(Concat(NormalisedEntries))
        /\ \A i \in 1..Len(f_entries) : Handed(Normalise(f_entries[i]), f_result[1].calls)
        /\ \A item \in Items(f_result[1].conditions) :
              \E k \in 1..Len(f_responses) :
                  ~f_responses[k].raises /\ item \in MadeBy(f_responses[k])

\* Two cell types recognised, an entry without cell type in the trial, and
\* the service answering with nothing: no condition is returned.
C13_Witness ==
    /\ f_done
    /\ Cardinality(f_recognised) = 2
    /\ \E i \in 1..Len(f_entries) : ~MentionsCellType(Lower(f_entries[i]))
    /\ Len(f_result[1].calls) = 1
    /\ f_result[1].conditions = <<>>

\* C14: when the pattern recognises the 3 cell types, exactly 3 conditions
\* are returned, one per cell type, and the service is not called; when no
\* entry mentions a cell type, the empty dict is returned and the service is
\* not called.
C14_FastPath ==
    /\ (f_done /\ Cardinality(f_recognised) = 3) =>
          /\ Len(f_result[1].conditions) = 3
          /\ Keys(f_result[1].conditions) = {Hemoglobin, Platelets, Leukocytes}
          /\ f_result[1].calls = <<>>
    /\ (f_done /\ \A i \in 1..Len(f_entries) : ~MentionsCellType(Lower(f_entries[i]))) =>
          /\ f_result[1].conditions = <<>>
          /\ f_result[1].calls = <<>>

\* The 3 cell types recognised in 4 matches over several entries.
C14_Witness ==
    /\ f_done
    /\ Cardinality(f_recognised) = 3
    /\ Len(condition_findall(f_description, 1)) = 4
    /\ Len(f_result[1].conditions) = 3

----------------------------------------------------------------------------
(* UmlsApi.get_crosswalk and UmlsApi.get_matches (apis.py 38-62)           *)

\* The sources the crosswalk expression rejects (apis.py 30).
TCGA == <<"T", "C", "G", "A">>
OMFAQ == <<"O", "M", "F", "A", "Q">>
MPNSAF == <<"M", "P", "N", "-", "S", "A", "F">>

Acceptable(candidate) == candidate.ui \notin {TCGA, OMFAQ, MPNSAF}

\* result[?ui != 'TCGA' && ui != 'OMFAQ' && ui != 'MPN-SAF']
\*     .{code: ui, description: name}
\* The trailing  | [0]  is the first element, or null on an empty list.
crosswalk_search(result) ==
    [i \in 1..Len(SelectSeq(result, Acceptable)) |->
        [code |-> SelectSeq(result, Acceptable)[i].ui,
         description |-> SelectSeq(result, Acceptable)[i].name]]

Died == [died |-> TRUE, value |-> None]
Returned(value) == [died |-> FALSE, value |-> value]

\* Lines 45-47, given the projected list: subscripting null raises.
CrosswalkOf(projected) ==
    IF projected = <<>> THEN Died
    ELSE Returned(<<projected[1].code, projected[1].description>>)

\* get_crosswalk, given what the request does: the value the greenlet
\* returns, or its death by an exception.
get_crosswalk(response) ==
    IF response.raises THEN Died
    ELSE IF response.status_code # 200 THEN Returned(<<None, None>>)
    ELSE CrosswalkOf(crosswalk_search(response.result))

\* ---- the requests of the model

Candidate(ui, name) == [ui |-> ui, name |-> name]
Candidates == {
    Candidate(TCGA, <<"t">>),
    Candidate(<<"C", "3">>, <<"n">>),
    Candidate(<<"C", "4">>, None)
}
MaxResults == 2
CrosswalkResults == SeqsUpTo(Candidates, MaxResults)

\* What self._get_response(url, params) may do (apis.py 42).
CrosswalkResponses ==
    {[raises |-> TRUE, status_code |-> 0, result |-> <<>>],
     [raises |-> FALSE, status_code |-> 404, result |-> <<>>]}
    \cup {[raises |-> FALSE, status_code |-> 200, result |-> r] : r \in CrosswalkResults}

OrigCodes == {"D1", "D2"}
Condition(orig_code) == <<orig_code, [codeset |-> "ICD10CM", description |-> "d"]>>
ConditionDicts ==
    {<<>>} \cup {<<Condition(a)>> : a \in OrigCodes}
           \cup {<<Condition(p[1]), Condition(p[2])>> :
                    p \in {q \in OrigCodes \X OrigCodes : q[1] # q[2]}}

InitUmls ==
    /\ conditions_by_code \in ConditionDicts
    /\ u_pc = "spawn"
    /\ matches = <<>>
    /\ u_waited = {}
    /\ yielded = <<>>
    /\ FilterIdle
    /\ EvalIdle
    /\ NciIdle
    /\ ObsIdle
    /\ FindIdle

\* The loop over conditions_by_code.items() (apis.py 51-53).
SpawnCrosswalks ==
    /\ u_pc = "spawn"
    /\ matches' = [i \in 1..Len(conditions_by_code) |->
                     [orig_code |-> conditions_by_code[i][1],
                      state |-> "running", value |-> None, response |-> None,
                      rank |-> 0]]
    /\ u_pc' = "iwait"
    /\ UNCHANGED <<conditions_by_code, u_waited, yielded, filterVars, evalVars, nciVars, obsVars, findVars>>

\* response is history: what the request of the greenlet did.  rank is the
\* place of the greenlet in the order of completion, the order in which
\* iwait() hands the greenlets over.
GreenletAfter(greenlet, response, outcome, rank) ==
    [greenlet EXCEPT !.state = IF outcome.died THEN "failed" ELSE "done",
                     !.value = outcome.value,
                     !.response = response,
                     !.rank = rank]

Completed == {m \in 1..Len(matches) : matches[m].state # "running"}

\* A crosswalk greenlet runs to its end while get_matches is in iwait.
CrosswalkRuns(m) ==
    /\ u_pc = "iwait"
    /\ matches[m].state = "running"
    /\ \E response \in CrosswalkResponses :
          matches' = [matches EXCEPT ![m] = GreenletAfter(@, response, get_crosswalk(response),
                                                       Cardinality(Completed) + 1)]
    /\ UNCHANGED <<conditions_by_code, u_pc, u_waited, yielded, filterVars, evalVars, nciVars, obsVars, findVars>>

Truthy(text) == text # <<>>

\* Lines 57-62: what is yielded for an unpacked value.
YieldOf(orig_code, ncit_code, ncit_desc) ==
    IF Truthy(ncit_code) /\ Truthy(ncit_desc)
    THEN <<orig_code, <<ncit_code, ncit_desc>> >>
    ELSE <<orig_code, None>>

\* One turn of the loop over iwait(matches) (apis.py 54-62).  The value of
\* a greenlet that died is None, and unpacking it raises in the generator.
YieldMatch(m) ==
    /\ u_pc = "iwait"
    /\ m \in Completed \ u_waited
    /\ \A m2 \in Completed \ u_waited : matches[m].rank <= matches[m2].rank
    /\ u_waited' = u_waited \cup {m}
    /\ IF matches[m].state = "failed"
       THEN /\ u_pc' = "raised"
            /\ yielded' = yielded
       ELSE /\ u_pc' = u_pc
            /\ yielded' = Append(yielded,
                  YieldOf(matches[m].orig_code, matches[m].value[1], matches[m].value[2]))
    /\ UNCHANGED <<conditions_by_code, matches, filterVars, evalVars, nciVars, obsVars, findVars>>

\* iwait(matches) is exhausted and the generator ends.
MatchesExhausted ==
    /\ u_pc = "iwait"
    /\ \A m \in 1..Len(matches) : m \in u_waited
    /\ u_pc' = "done"
    /\ UNCHANGED <<conditions_by_code, matches, u_waited, yielded, filterVars, evalVars, nciVars, obsVars, findVars>>

\* The request was answered and the answer names no acceptable candidate.
Unresolved(response) ==
    /\ response # None
    /\ ~response.raises
    /\ \/ response.status_code # 200
       \/ SelectSeq(response.result, Acceptable) = <<>>

NextUmls ==
    \/ SpawnCrosswalks
    \/ \E m \in 1..Len(matches) : CrosswalkRuns(m)
    \/ \E m \in 1..Len(matches) : YieldMatch(m)
    \/ MatchesExhausted

SpecUmls == InitUmls /\ [][NextUmls]_vars

\* C10: a code whose crosswalk request was answered with a status other
\* than 200, or with a 200 that names no acceptable candidate, is yielded
\* as (code, None) once iwait hands its greenlet over, and the generator
\* does not raise.
C10_UnresolvedDegradesToNull ==
    \A m \in 1..Len(matches) :
        (m \in u_waited /\ Unresolved(matches[m].response))
            => /\ u_pc # "raised"
               /\ \E i \in 1..Len(yielded) : yielded[i] = <<matches[m].orig_code, None>>

\* The request of greenlet m failed with an exception (a network failure).
NetworkFailure(m) == matches[m].response # None /\ matches[m].response.raises

\* C11: when the generator has ended, one crosswalk greenlet having failed
\* with an exception and every other one having returned, a result was
\* yielded for the source code of every other greenlet.
C11_OneFailureDoesNotAbort ==
    (/\ u_pc \in {"done", "raised"}
     /\ Cardinality({m \in 1..Len(matches) : NetworkFailure(m)}) = 1
     /\ \A m \in 1..Len(matches) : NetworkFailure(m) \/ matches[m].state = "done")
        => \A m \in 1..Len(matches) :
              NetworkFailure(m) \/ \E i \in 1..Len(yielded) : yielded[i][1] = matches[m].orig_code

----------------------------------------------------------------------------
(* NciApi.get_trials (apis.py 95-116)                                      *)

size == 50

\* range(start, stop, step), step > 0.
PyRange(start, stop, step) ==
    [k \in 1..(IF stop > start THEN (stop - start + step - 1) \div step ELSE 0) |->
        start + (k - 1) * step]

\* ---- the trials service of the model

MaxTotal == 151
QueryCodes == {"C123"}

\* The trial at a position of the result list: its diseases alternate.
ServiceTrial(position) ==
    [nci_id |-> position,
     diseases |-> IF position % 2 = 1 THEN {"C123"} ELSE {"C999"}]

Min(a, b) == IF a < b THEN a ELSE b

\* The answer to size=50&from=start_from: the trials at the positions
\* start_from .. start_from + size - 1 that exist, and the total.
ServicePage(start_from) ==
    [trials |-> [k \in 1..(Min(start_from + size - 1, corpus_total) - start_from + 1) |->
                    ServiceTrial(start_from + k - 1)],
     total |-> corpus_total]

\* _add_disease_list (apis.py 89-93), as the trial it leaves.
add_disease_list(trial) ==
    [nci_id |-> trial.nci_id, diseases |-> trial.diseases,
     ncit_codes |-> QueryCodes \cap trial.diseases]

\* The loop over a page's trials (apis.py 102-104, 114-116): what the
\* consumer receives.
EmitTrials(page) == [k \in 1..Len(page.trials) |-> add_disease_list(page.trials[k])]

InitNci ==
    /\ corpus_total \in 0..MaxTotal
    /\ n_pc = "first"
    /\ pages = <<>>
    /\ n_waited = {}
    /\ emitted = <<>>
    /\ FilterIdle
    /\ EvalIdle
    /\ UmlsIdle
    /\ ObsIdle
    /\ FindIdle

\* The pages spawned with the offsets starting at size, not at 1 + size.
SpawnedPages_FromSize(total) ==
    IF total > size
    THEN [k \in 1..Len(PyRange(size, 1 + total, size)) |->
            [start_from |-> PyRange(size, 1 + total, size)[k],
             state |-> "running", value |-> None, rank |-> 0]]
    ELSE <<>>

\* The pages spawned (apis.py 107-111).
SpawnedPages(total) ==
    IF total > size
    THEN [k \in 1..Len(PyRange(1 + size, 1 + total, size)) |->
            [start_from |-> PyRange(1 + size, 1 + total, size)[k],
             state |-> "running", value |-> None, rank |-> 0]]
    ELSE <<>>

\* Lines 99-111: the first page is fetched in the generator itself, so its
\* failure is raised to the consumer; its trials are emitted, then the
\* other pages are spawned.
FirstPage ==
    /\ n_pc = "first"
    /\ \E fails \in BOOLEAN :
          IF fails
          THEN /\ n_pc' = "raised"
               /\ UNCHANGED <<pages, emitted>>
          ELSE /\ emitted' = EmitTrials(ServicePage(1))
               /\ pages' = SpawnedPages(ServicePage(1).total)
               /\ n_pc' = IF ServicePage(1).total > size THEN "iwait" ELSE "done"
    /\ UNCHANGED <<corpus_total, n_waited, filterVars, evalVars, umlsVars, obsVars, findVars>>

FetchedPages == {p \in 1..Len(pages) : pages[p].state # "running"}

PageAfter(page, fails, rank) ==
    [page EXCEPT !.state = IF fails THEN "failed" ELSE "done",
                 !.value = IF fails THEN None ELSE ServicePage(page.start_from),
                 !.rank = rank]

\* A page greenlet (_get_trials_page, apis.py 79-87) runs to its end while
\* get_trials is in iwait: the request is answered, or it raises.
PageRuns(p) ==
    /\ n_pc = "iwait"
    /\ pages[p].state = "running"
    /\ \E fails \in BOOLEAN :
          pages' = [pages EXCEPT ![p] = PageAfter(@, fails, Cardinality(FetchedPages) + 1)]
    /\ UNCHANGED <<corpus_total, n_pc, n_waited, emitted,
                   filterVars, evalVars, umlsVars, obsVars, findVars>>

\* One turn of the loop over iwait(pages) (apis.py 113-116).  The value of
\* a greenlet that died is None, and subscripting it raises in the
\* generator.
EmitPage(p) ==
    /\ n_pc = "iwait"
    /\ p \in FetchedPages \ n_waited
    /\ \A p2 \in FetchedPages \ n_waited : pages[p].rank <= pages[p2].rank
    /\ n_waited' = n_waited \cup {p}
    /\ IF pages[p].state = "failed"
       THEN /\ n_pc' = "raised"
            /\ emitted' = emitted
       ELSE /\ n_pc' = n_pc
            /\ emitted' = emitted \o EmitTrials(pages[p].value)
    /\ UNCHANGED <<corpus_total, pages, filterVars, evalVars, umlsVars, obsVars, findVars>>

\* iwait(pages) is exhausted and the generator ends.
PagesExhausted ==
    /\ n_pc = "iwait"
    /\ \A p \in 1..Len(pages) : p \in n_waited
    /\ n_pc' = "done"
    /\ UNCHANGED <<corpus_total, pages, n_waited, emitted,
                   filterVars, evalVars, umlsVars, obsVars, findVars>>

NextNci ==
    \/ FirstPage
    \/ \E p \in 1..Len(pages) : PageRuns(p)
    \/ \E p \in 1..Len(pages) : EmitPage(p)
    \/ PagesExhausted

SpecNci == InitNci /\ [][NextNci]_vars

EmittedIds == {emitted[i].nci_id : i \in 1..Len(emitted)}
PageRange(p) ==
    pages[p].start_from .. Min(pages[p].start_from + size - 1, corpus_total)

\* C12: when the generator has ended and the fetch of exactly one page
\* after page 1 failed, no trial of that page's range was emitted, every
\* trial of every page fetched was emitted, and the generator did not
\* raise.
C12_FailedPageSilentlyMissing ==
    (/\ n_pc \in {"done", "raised"}
     /\ pages # <<>>
     /\ Cardinality({p \in 1..Len(pages) : pages[p].state = "failed"}) = 1
     /\ \A p \in 1..Len(pages) : pages[p].state # "running")
        => /\ n_pc = "done"
           /\ \A p \in 1..Len(pages) :
                 IF pages[p].state = "failed"
                 THEN PageRange(p) \cap EmittedIds = {}
                 ELSE PageRange(p) \subseteq EmittedIds

\* The start offsets requested so far, page 1 included, and the range of
\* positions a request of size trials from an offset asks for.
RequestedStarts == {1} \cup {pages[p].start_from : p \in 1..Len(pages)}
RequestedRange(start_from) == start_from .. (start_from + size - 1)
AllPagesDone == \A p \in 1..Len(pages) : pages[p].state = "done"

\* C21: page 1 is fetched before any page is spawned; once the pages are
\* spawned the offsets requested are 1 and the 1 + k*size that are at most
\* the total, one request each, their ranges are pairwise disjoint and
\* cover 1..total; and when the generator ends with every page fetched,
\* every trial of every page was emitted exactly once, the trials without
\* a requested code included.
C21_PagesCoverTotal ==
    /\ n_pc = "first" => pages = <<>> /\ emitted = <<>>
    /\ n_pc \in {"iwait", "done"} =>
          /\ RequestedStarts =
                {1} \cup {f \in 1..corpus_total : f > 1 /\ (f - 1) % size = 0}
          /\ Cardinality(RequestedStarts) = Len(pages) + 1
          /\ \A f \in RequestedStarts : \A g \in RequestedStarts \ {f} :
                RequestedRange(f) \cap RequestedRange(g) = {}
          /\ 1..corpus_total \subseteq UNION {RequestedRange(f) : f \in RequestedStarts}
    /\ (n_pc = "done" /\ AllPagesDone) =>
          /\ Len(emitted) = corpus_total
          /\ EmittedIds = 1..corpus_total
          /\ \A i \in 1..Len(emitted) :
                emitted[i] = add_disease_list(ServiceTrial(emitted[i].nci_id))

\* The end of a stream of four pages, the last one of a single trial,
\* emitted out of spawn order, with a trial of no requested code.
C21_Witness ==
    /\ n_pc = "done"
    /\ Len(pages) = 3
    /\ AllPagesDone
    /\ corpus_total = 3 * size + 1
    /\ pages[3].rank < pages[1].rank
    /\ \E i \in 1..Len(emitted) : emitted[i].ncit_codes = {}

----------------------------------------------------------------------------
(* get_lab_observations_by_patient (patient.py 153-184)                    *)

\* patient.py 24-28.
LOINC_CODES == <<
    <<"718-7", Hemoglobin>>,
    <<"6690-2", Leukocytes>>,
    <<"777-3", Platelets>>
>>

\* a > b on two str of digits: the first differing character decides, and a
\* proper prefix is the smaller one.
RECURSIVE StrGreater(_, _)
StrGreater(a, b) ==
    IF a = <<>> THEN FALSE
    ELSE IF b = <<>> THEN TRUE
    ELSE IF a[1] = b[1] THEN StrGreater(Tail(a), Tail(b))
    ELSE DigitVal(a[1]) > DigitVal(b[1])

\* An observation resource, entry['resource']; complete is whether it holds
\* every key lines 167-170 read.
Observation(code, number, date) ==
    [code |-> code, value |-> <<number, "u">>, effectiveDateTime |-> date,
     complete |-> TRUE]
Incomplete(code, number) ==
    [code |-> code, value |-> <<number, "u">>, effectiveDateTime |-> None,
     complete |-> FALSE]

Y2019 == <<"2", "0", "1", "9">>
Y2020 == <<"2", "0", "2", "0">>
Y2021 == <<"2", "0", "2", "1">>

\* The observations of a patient, in the order the service lists them.
ObservationLists == {
    <<Observation("718-7", <<"9">>, Y2019), Observation("6690-2", <<"3">>, Y2019),
      Observation("777-3", <<"1">>, Y2019), Observation("777-3", <<"2">>, Y2020)>>,
    <<Observation("777-3", <<"2">>, Y2020), Observation("718-7", <<"9">>, Y2019),
      Observation("6690-2", <<"3">>, Y2019), Observation("777-3", <<"1">>, Y2019)>>,
    <<Observation("777-3", <<"1">>, Y2019), Incomplete("777-3", <<"3">>),
      Observation("1-0", <<"7">>, Y2021), Observation("777-3", <<"2">>, Y2020)>>,
    <<Observation("718-7", <<"8">>, Y2020), Observation("718-7", <<"9">>, Y2019),
      Observation("6690-2", <<"3">>, Y2020), Observation("6690-2", <<"4">>, Y2021)>>
}

MaxPages == 3

\* The observations of the list the service puts on page p, in list order.
RECURSIVE OnPage(_, _, _, _)
OnPage(observations, page_of, p, i) ==
    IF i > Len(observations) THEN <<>>
    ELSE IF page_of[i] = p
         THEN <<observations[i]>> \o OnPage(observations, page_of, p, i + 1)
         ELSE OnPage(observations, page_of, p, i + 1)

\* The 'link' list of page i of n: a next link on every page but the last.
Links(i, n) ==
    IF i < n
    THEN <<[relation |-> "self", url |-> i], [relation |-> "next", url |-> i + 1]>>
    ELSE <<[relation |-> "self", url |-> i]>>

\* The bundle: the pages that hold an observation, each with its links.
Bundle(observations, page_of) ==
    LET kept == SelectSeq([p \in 1..MaxPages |-> OnPage(observations, page_of, p, 1)],
                          LAMBDA entry : entry # <<>>)
    IN  [i \in 1..Len(kept) |-> [entry |-> kept[i], link |-> Links(i, Len(kept))]]

Bundles ==
    {Bundle(observations, page_of) :
        observations \in ObservationLists,
        page_of \in [1..4 -> 1..MaxPages]}

\* Lines 161-176: the loop over the entries of a page.
RECURSIVE StoreEntries(_, _)
StoreEntries(entry, results) ==
    IF entry = <<>> THEN results
    ELSE IF ~entry[1].complete THEN StoreEntries(Tail(entry), results)
    ELSE IF /\ HasKey(LOINC_CODES, entry[1].code)
            /\ \/ ~HasKey(results, entry[1].code)
               \/ StrGreater(entry[1].effectiveDateTime,
                             ValueOf(results, entry[1].code).effectiveDateTime)
         THEN StoreEntries(Tail(entry),
                SetItem(results, entry[1].code,
                        [effectiveDateTime |-> entry[1].effectiveDateTime,
                         value |-> entry[1].value]))
         ELSE StoreEntries(Tail(entry), results)

\* Lines 178-181: the url of the last link whose relation is next, or None.
RECURSIVE NextUrl(_, _)
NextUrl(link, url) ==
    IF link = <<>> THEN url
    ELSE NextUrl(Tail(link), IF link[1].relation = "next" THEN link[1].url ELSE url)

InitObs ==
    /\ bundle \in Bundles
    /\ current_url = 1
    /\ o_pc = "loop"
    /\ o_lab_results = <<>>
    /\ values_by_cell_type = <<>>
    /\ FilterIdle
    /\ EvalIdle
    /\ UmlsIdle
    /\ NciIdle
    /\ FindIdle

\* One turn of the while loop (lines 158-181).
ReadPage ==
    /\ o_pc = "loop"
    /\ Len(o_lab_results) # 3
    /\ current_url # 0
    /\ o_lab_results' = StoreEntries(bundle[current_url].entry, o_lab_results)
    /\ current_url' = NextUrl(bundle[current_url].link, 0)
    /\ UNCHANGED <<bundle, o_pc, values_by_cell_type,
                   filterVars, evalVars, umlsVars, nciVars, findVars>>

\* Lines 183-184, once the test of the while loop fails.
ReturnLabs ==
    /\ o_pc = "loop"
    /\ ~(Len(o_lab_results) # 3 /\ current_url # 0)
    /\ values_by_cell_type' =
          [i \in 1..Len(o_lab_results) |->
              <<ValueOf(LOINC_CODES, o_lab_results[i][1]), o_lab_results[i][2].value>>]
    /\ o_pc' = "returned"
    /\ UNCHANGED <<bundle, current_url, o_lab_results,
                   filterVars, evalVars, umlsVars, nciVars, findVars>>

NextObs == ReadPage \/ ReturnLabs

SpecObs == InitObs /\ [][NextObs]_vars

\* The complete observations of a cell type anywhere in the bundle.
ObservationsOf(cell_type) ==
    {bundle[p].entry[k] :
        <<p, k>> \in {pk \in (1..Len(bundle)) \X (1..4) :
                        /\ pk[2] <= Len(bundle[pk[1]].entry)
                        /\ bundle[pk[1]].entry[pk[2]].complete
                        /\ HasKey(LOINC_CODES, bundle[pk[1]].entry[pk[2]].code)
                        /\ ValueOf(LOINC_CODES, bundle[pk[1]].entry[pk[2]].code)
                              = cell_type}}
Latest(observations) ==
    {o \in observations :
        \A other \in observations :
            ~StrGreater(other.effectiveDateTime, o.effectiveDateTime)}

\* C20: the dict returned holds at most one value per cell type, none for a
\* cell type without observation, and for each other cell type the value of
\* a latest-dated observation of that type among all pages of the bundle.
C20_LatestAcrossPages ==
    o_pc = "returned" =>
        \A cell_type \in {Hemoglobin, Leukocytes, Platelets} :
            /\ Cardinality({i \in 1..Len(values_by_cell_type) :
                              values_by_cell_type[i][1] = cell_type}) <= 1
            /\ HasKey(values_by_cell_type, cell_type)
                  <=> ObservationsOf(cell_type) # {}
            /\ HasKey(values_by_cell_type, cell_type) =>
                  \E o \in Latest(ObservationsOf(cell_type)) :
                      ValueOf(values_by_cell_type, cell_type) = o.value

----------------------------------------------------------------------------
(* SpecChunks: get_mapping_with_aws_comprehend on a list of entries        *)

PlateletsUpper ==
    <<"P">> \o Tail(Platelets)
        \o <<" ", ">", "=", " ", "1", "0", "0", ",", "0", "0", "0", "/", "u", "l">>

ShortEntries == {<<>>, AgeText, PlateletsUpper, PlateletsNormal}

\* The lists of entries tried: the short ones, and lists with entries at,
\* above and below the ceiling of a chunk.
ChunkInputs ==
    {<<>>} \cup {<<a>> : a \in ShortEntries}
           \cup {<<a, b>> : a \in ShortEntries, b \in ShortEntries}
           \cup {
        <<Filler(LongLen - 1)>>,
        <<Filler(LongLen)>>,
        <<<<",">> \o Filler(LongLen - 1)>>,
        <<AgeText, Filler(LongLen)>>,
        <<Filler(HalfLen), Filler(HalfLen)>>,
        <<Filler(HalfLen), Filler(HalfLen - 1)>>,
        <<Filler(HalfLen), AgeText, Filler(HalfLen)>>,
        <<Filler(2 * LongLen - 2)>>,
        <<Filler(2 * LongLen)>>,
        <<Filler(HalfLen), Filler(LongLen), Filler(HalfLen)>>,
        <<Filler(LongLen - 1), AgeText>>,
        <<PlateletsUpper, Filler(LongLen - 1 - Len(Normalise(PlateletsUpper)))>>
    }

\* What the detection service does on a call: it raises, or it answers
\* with entities.
ChunkResponses == {r \in ServiceResponses : r.raises \/ Len(r.Entities) > 1}

InitChunks ==
    /\ f_trial_json \in {[i \in 1..Len(entries) |-> Inclusion(entries[i])] :
                           entries \in ChunkInputs}
    /\ f_responses = <<>>
    /\ f_result = <<>>
    /\ FilterIdle
    /\ EvalIdle
    /\ UmlsIdle
    /\ NciIdle
    /\ ObsIdle

\* get_mapping_with_aws_comprehend(descriptions) (patient.py 325-352).
GetMapping ==
    /\ f_result = <<>>
    /\ \E responses \in [1..Len(get_description(UnstructuredDescriptions(f_trial_json)))
                            -> ChunkResponses] :
          /\ f_responses' = responses
          /\ f_result' = <<get_mapping_with_aws_comprehend(
                              UnstructuredDescriptions(f_trial_json), responses)>>
    /\ UNCHANGED <<f_trial_json, filterVars, evalVars, umlsVars, nciVars, obsVars>>

NextChunks == GetMapping

SpecChunks == InitChunks /\ [][NextChunks]_vars

CountOf(text, c) == Len(SelectSeq(text, LAMBDA x : x = c))
\* The j-th piece of a text cut every lim characters.
Piece(text, j, lim) == SubSeq(text, (j - 1) * lim + 1, Min(j * lim, Len(text)))
\* The pieces of the text are calls a, a+1, ...
SplitAt(text, calls, a) ==
    \A j \in 1..CeilDiv(Len(text), limit) :
        a + j - 1 <= Len(calls) /\ calls[a + j - 1] = Piece(text, j, limit)

\* C22: no text handed to the detection service is longer than the ceiling;
\* an entry longer than the ceiling is handed over in consecutive calls, cut
\* every ceiling characters; an entry that is not longer is part of the
\* text of one call; and the texts of the calls together hold as many
\* characters, and as many of each kind, as the normalised entries.
C22_ChunksUnderCeiling ==
    f_done =>
        /\ \A k \in 1..Len(f_result[1].calls) : Len(f_result[1].calls[k]) <= limit
        /\ \A i \in 1..Len(f_entries) :
              IF Len(Normalise(f_entries[i])) > limit
              THEN \E a \in 1..Len(f_result[1].calls) :
                      SplitAt(Normalise(f_entries[i]), f_result[1].calls, a)
              ELSE \E k \in 1..Len(f_result[1].calls) :
                      Contains(f_result[1].calls[k], Normalise(f_entries[i]))
        /\ Len(Concat(f_result[1].calls)) = Len(Concat(NormalisedEntries))
        /\ \A c \in {"x", "a", "p", ","} :
              CountOf(Concat(f_result[1].calls), c)
                 = CountOf(Concat(NormalisedEntries), c)

\* An entry above the ceiling between two entries that do not fit in one
\* chunk together: four calls.
C22_Witness ==
    /\ f_done
    /\ Len(f_entries) = 3
    /\ Len(Normalise(f_entries[2])) > limit
    /\ Len(f_result[1].calls) = 4
    /\ f_result[1].calls[2] # f_result[1].calls[1]
    /\ f_result[1].calls[3] = Normalise(f_entries[1])

====
